---- MODULE Spec2Model ----
(***************************************************************************)
(* Analytics telemetry engine of skill-hub-plus (src-tauri/src/core):      *)
(*   analytics_store.rs   AnalyticsStore  (skill_events, analytics_alerts) *)
(*   analytics_alert.rs   AlertDetector   (failure / latency spike checks) *)
(*   analytics_ingest.rs  start_ingest_server (POST /v1/events)            *)
(*   skill_store.rs       SkillStore::ensure_schema, and the setup in      *)
(*                        lib.rs that opens both stores                    *)
(*                                                                         *)
(* Conventions.                                                            *)
(*   Option<T> is a set with at most one element: {} is None / SQL NULL,   *)
(*   {v} is Some(v).                                                       *)
(*   A ratio of two i64 computed in f64 is kept exact as the pair          *)
(*   <<numerator, denominator>>; two ratios are compared by cross          *)
(*   multiplication.  For the counts that occur (far below 2^53) the f64   *)
(*   comparison  failures/total > 0.10  agrees with  failures*10 > total.  *)
(*   uuid::Uuid::new_v4() is a value never produced before: the counter    *)
(*   nextUuid.                                                             *)
(*   Columns of skill_events that no modelled statement reads (event_type, *)
(*   session_id, input_hash, error, feedback_score, cost and caller        *)
(*   columns, metadata_json) are not carried in the rows; the columns of   *)
(*   skill_daily_stats computed from them (total_cost_usd, thumbs_up,      *)
(*   thumbs_down) are not carried either.                                  *)
(*   A calendar date is the number of its day since the epoch:             *)
(*   date(timestamp, 'unixepoch') is timestamp \div 86400.                 *)
(***************************************************************************)
EXTENDS Integers, Sequences, FiniteSets, TLC

VARIABLES
    now,        \* SystemTime::now() in seconds since the epoch
    events,     \* table skill_events as the connection sees it
    alerts,     \* table analytics_alerts
    stats,      \* table skill_daily_stats
    lock,       \* owner of AnalyticsStore.conn (Mutex<Connection>), or "none"
    txBase,     \* content of skill_events at BEGIN of the open transaction
    nextUuid,   \* next value Uuid::new_v4 returns
    pc,         \* control position of each thread
    loc,        \* locals of the call each thread is in
    resp,       \* what each thread's last call returned / answered
    obs,        \* result of the last in-process query
    db          \* the skills database (PRAGMA user_version and its tables)
                \* and how far the application's setup has come

vars == <<now, events, alerts, stats, lock, txBase, nextUuid, pc, loc, resp, obs,
          db>>

-----------------------------------------------------------------------------
(* Program constants *)

HOUR == 3600
DAY == 86400
MIN_CALLS == 20
RATE_DEN == 10
LATENCY_FACTOR == 3
P95_NUM == 95
P95_DEN == 100

(* Bounds of the model *)

T0 == 1000000       \* the clock when the store is opened
FirstUuid == 100    \* uuids are 100, 101, ...; ids chosen by callers are below
MaxUuids == 2       \* uuids drawn for events received over HTTP in one run
MaxTicks == 1       \* hours the clock advances in one run

Skills == {"A", "B"}
Users == {"u1", "u2"}
Threads == {"srv", "api"}

None == {}
Some(v) == {v}
The(opt) == CHOOSE v \in opt : TRUE

Min(a, b) == IF a < b THEN a ELSE b

\* SUM(duration_ms) over a set of rows that all have a duration
RECURSIVE SumDuration(_)
SumDuration(S) ==
    IF S = {} THEN 0
    ELSE LET x == CHOOSE y \in S : TRUE
         IN  The(x.duration_ms) + SumDuration(S \ {x})

-----------------------------------------------------------------------------
(* SkillEventRow and the wire format *)

Row(id, skill, ts, user, success, dur) ==
    [id |-> id, skill_id |-> skill, timestamp |-> ts, user_id |-> user,
     success |-> success, duration_ms |-> dur]

\* An RFC 3339 text is a local time with a UTC offset; anything else is not one.
Rfc(local, offset) == [rfc3339 |-> TRUE, local |-> local, offset |-> offset]
NotRfc == [rfc3339 |-> FALSE, local |-> 0, offset |-> 0]

\* chrono::DateTime::parse_from_rfc3339(..).map(|dt| dt.timestamp())
parse_from_rfc3339(text) ==
    IF text.rfc3339 THEN Some(text.local - text.offset) ELSE None

\* One element of "events" in a request body.  skill_id, user_id, success and
\* timestamp are required by IngestEvent; duration_ms is Option<i64>.
Wire(skill, text, user, success, dur) ==
    [skill_id |-> skill, timestamp |-> text, user_id |-> user,
     success |-> success, duration_ms |-> dur]

\* Variant of to_row that gives every row the same id
to_row_FixedId(e, uuid, clock) ==
    Row(FirstUuid, The(e.skill_id),
        IF parse_from_rfc3339(The(e.timestamp)) # None
            THEN The(parse_from_rfc3339(The(e.timestamp))) ELSE clock,
        The(e.user_id), The(e.success), e.duration_ms)

\* IngestEvent::to_row
to_row(e, uuid, clock) ==
    Row(uuid, The(e.skill_id),
        IF parse_from_rfc3339(The(e.timestamp)) # None
            THEN The(parse_from_rfc3339(The(e.timestamp))) ELSE clock,
        The(e.user_id), The(e.success), e.duration_ms)

WellFormed(e) ==
    /\ e.skill_id # None
    /\ e.timestamp # None
    /\ e.user_id # None
    /\ e.success # None

\* Variant of from_str that accepts events lacking required fields
from_str_Lenient(body) ==
    IF ~body.json THEN None
    ELSE Some(SelectSeq(body.events, WellFormed))

\* serde_json::from_str::<IngestRequest>(&body): Some(events) or None on error
from_str(body) ==
    IF body.json /\ \A i \in 1..Len(body.events) : WellFormed(body.events[i])
        THEN Some(body.events)
        ELSE None

-----------------------------------------------------------------------------
(* AnalyticsStore: statements on skill_events *)

Ids(ev) == {e.id : e \in ev}

\* Variant of the insert: INSERT OR REPLACE
InsertOrReplace(ev, row) == {e \in ev : e.id # row.id} \cup {row}

\* INSERT OR IGNORE INTO skill_events ... (id is the PRIMARY KEY)
InsertOrIgnore(ev, row) ==
    IF row.id \in Ids(ev) THEN ev ELSE ev \cup {row}

\* Variant of the count: only rows that were added
CountIfChanged(ev, row, count) ==
    IF row.id \in Ids(ev) THEN count ELSE count + 1

\* count += 1 after each tx.execute
CountRow(ev, row, count) == count + 1

\* WHERE timestamp >= ?1
Since(ev, since) == {e \in ev : e.timestamp >= since}

\* Variant of the preceding window that includes its end
Between_Inclusive(ev, from, to) ==
    {e \in ev : e.timestamp >= from /\ e.timestamp <= to}

\* WHERE timestamp >= ?1 AND timestamp < ?2
Between(ev, from, to) == {e \in ev : e.timestamp >= from /\ e.timestamp < to}

OfSkill(ev, sid) == {e \in ev : e.skill_id = sid}

WithDuration(ev) == {e \in ev : e.duration_ms # None}

\* SUM(CASE WHEN <cond> THEN 1 ELSE 0 END): NULL over no rows
SumCase(sel, flag) ==
    IF sel = {} THEN None
    ELSE Some(Cardinality({e \in sel : e.success = flag}))

\* COUNT(DISTINCT user_id)
CountDistinctUsers(sel) == Cardinality({e.user_id : e \in sel})

\* Variant of the percentile that takes the largest duration
P95_Max(sel) ==
    LET D == WithDuration(sel)
    IN  {v \in {The(e.duration_ms) : e \in D} :
            \A e \in D : The(e.duration_ms) <= v}

\* SELECT duration_ms FROM <sel> WHERE duration_ms IS NOT NULL
\* ORDER BY duration_ms ASC LIMIT 1 OFFSET CAST(COUNT(*) * 0.95 AS INTEGER),
\* read with query_row(..).ok(): the row at that offset, None when there is none
P95(sel) ==
    LET D == WithDuration(sel)
        off == (Cardinality(D) * P95_NUM) \div P95_DEN
    IN  {v \in {The(e.duration_ms) : e \in D} :
            /\ Cardinality({e \in D : The(e.duration_ms) < v}) <= off
            /\ off < Cardinality({e \in D : The(e.duration_ms) <= v})}

Err == [ok |-> FALSE]

\* AnalyticsStore::get_overview
get_overview(ev, clock, days) ==
    LET period_start == clock - days * DAY
        prev_start == period_start - days * DAY
        cur == Since(ev, period_start)
        total_calls == Cardinality(cur)
        success_count == SumCase(cur, TRUE)
        active_users == CountDistinctUsers(cur)
        p95_latency_ms == P95(cur)
        prv == Between(ev, prev_start, period_start)
        \* .unwrap_or((0, 0, 0)) when the row cannot be read
        prev_total == IF SumCase(prv, TRUE) = None THEN 0 ELSE Cardinality(prv)
        prev_success == IF SumCase(prv, TRUE) = None THEN 0
                        ELSE The(SumCase(prv, TRUE))
        prev_users == IF SumCase(prv, TRUE) = None THEN 0
                      ELSE CountDistinctUsers(prv)
        prev_p95 == P95(prv)
        success_rate == IF total_calls > 0
                           THEN <<The(success_count), total_calls>>
                           ELSE <<1, 1>>
        prev_success_rate == IF prev_total > 0
                                THEN <<prev_success, prev_total>>
                                ELSE <<1, 1>>
    IN  \* row.get::<i64>(1)? fails on NULL
        IF success_count = None THEN Err
        ELSE [ok |-> TRUE,
              total_calls |-> total_calls,
              success_rate |-> success_rate,
              p95_latency_ms |-> p95_latency_ms,
              active_users |-> active_users,
              total_calls_delta_pct |->
                  IF prev_total > 0
                      THEN Some(<<(total_calls - prev_total) * 100, prev_total>>)
                      ELSE None,
              success_rate_delta |->
                  Some(<<success_rate[1] * prev_success_rate[2]
                            - prev_success_rate[1] * success_rate[2],
                         success_rate[2] * prev_success_rate[2]>>),
              p95_latency_delta_ms |->
                  IF p95_latency_ms # None /\ prev_p95 # None
                      THEN Some(The(p95_latency_ms) - The(prev_p95))
                      ELSE None,
              active_users_delta |-> Some(active_users - prev_users)]

\* One row of SELECT skill_id, COUNT(*), SUM(success=1) * 1.0 / COUNT(*),
\* AVG(duration_ms) ... GROUP BY skill_id
TopSkillEntry(sel, sid) ==
    LET g == OfSkill(sel, sid)
        d == WithDuration(g)
    IN  [skill_id |-> sid,
         call_count |-> Cardinality(g),
         success_rate |-> <<Cardinality({e \in g : e.success}), Cardinality(g)>>,
         avg_latency_ms |-> IF d = {} THEN None
                            ELSE Some(<<SumDuration(d), Cardinality(d)>>)]

\* ORDER BY cnt DESC: every order of the groups in which no count rises;
\* the order among equal counts is the query plan's
OrderByCntDesc(groups) ==
    {p \in [1..Cardinality(groups) -> groups] :
        /\ \A i, j \in DOMAIN p : i # j => p[i] # p[j]
        /\ \A i, j \in DOMAIN p : i < j => p[i].call_count >= p[j].call_count}

\* Variant of LIMIT that lets one more row through
LimitPlusOne(p, limit) ==
    IF limit < 0 THEN p ELSE SubSeq(p, 1, Min(limit + 1, Len(p)))

\* LIMIT ?2: a negative LIMIT is no limit in SQLite
Limit(p, limit) ==
    IF limit < 0 THEN p ELSE SubSeq(p, 1, Min(limit, Len(p)))

\* AnalyticsStore::get_top_skills: the results the statement can produce
get_top_skills(ev, clock, days, limit) ==
    LET since == clock - days * DAY
        sel == Since(ev, since)
        groups == {TopSkillEntry(sel, sid) : sid \in {e.skill_id : e \in sel}}
    IN  {Limit(p, limit) : p \in OrderByCntDesc(groups)}

-----------------------------------------------------------------------------
(* AlertDetector *)

NoMsg == <<>>
ResultErr == [kind |-> "Err", msg |-> NoMsg]
ResultNone == [kind |-> "None", msg |-> NoMsg]
ResultSome(m) == [kind |-> "Some", msg |-> m]

\* Variant of check_failure_spike with the volume gate total >= 20
check_failure_spike_AtLeast(ev, clock, sid) ==
    LET sel == Since(OfSkill(ev, sid), clock - HOUR)
        total == Cardinality(sel)
        failures == SumCase(sel, FALSE)
    IN  IF failures = None THEN ResultErr
        ELSE IF total >= MIN_CALLS /\ The(failures) * RATE_DEN > total
            THEN ResultSome(<<"failure", The(failures), total>>)
            ELSE ResultNone

\* AlertDetector::check_failure_spike.  The message is kept as the numbers
\* it is formatted from.
check_failure_spike(ev, clock, sid) ==
    LET one_hour_ago == clock - HOUR
        sel == Since(OfSkill(ev, sid), one_hour_ago)
        total == Cardinality(sel)
        failures == SumCase(sel, FALSE)
    IN  \* row.get::<i64>(1)? fails on NULL, and ? returns the error
        IF failures = None THEN ResultErr
        ELSE IF total > MIN_CALLS
                \* failures as f64 / total as f64 > 0.10
                /\ The(failures) * RATE_DEN > total
            THEN ResultSome(<<"failure", The(failures), total>>)
            ELSE ResultNone

\* Variant of check_latency_spike that reports without an earlier p95
check_latency_spike_NoBaseline(ev, clock, sid) ==
    LET current_p95 == P95(Since(OfSkill(ev, sid), clock - HOUR))
        prev_p95 == P95(Between(OfSkill(ev, sid), clock - HOUR - DAY, clock - DAY))
    IN  IF current_p95 # None
           /\ (prev_p95 = None \/ The(current_p95) > The(prev_p95) * LATENCY_FACTOR)
            THEN ResultSome(<<"latency", 0, The(current_p95)>>)
            ELSE ResultNone

\* AlertDetector::check_latency_spike
check_latency_spike(ev, clock, sid) ==
    LET one_hour_ago == clock - HOUR
        yesterday_start == one_hour_ago - DAY
        yesterday_end == clock - DAY
        current_p95 == P95(Since(OfSkill(ev, sid), one_hour_ago))
        prev_p95 == P95(Between(OfSkill(ev, sid), yesterday_start, yesterday_end))
    IN  IF current_p95 # None /\ prev_p95 # None
           /\ The(prev_p95) > 0
           /\ The(current_p95) > The(prev_p95) * LATENCY_FACTOR
            THEN ResultSome(<<"latency", The(prev_p95), The(current_p95)>>)
            ELSE ResultNone

Alert(id, sid, alert_type, severity, message, detected_at) ==
    [id |-> id, skill_id |-> sid, alert_type |-> alert_type,
     severity |-> severity, message |-> message, detected_at |-> detected_at,
     resolved_at |-> None, acknowledged |-> FALSE]

\* Variant of the duplicate check that finds nothing
Existing_Unchecked(al, sid, alert_type) == 0

\* SELECT COUNT(*) FROM analytics_alerts
\* WHERE skill_id = ?1 AND alert_type = ?2 AND resolved_at IS NULL
Existing(al, sid, alert_type) ==
    Cardinality({a \in al : /\ a.skill_id = sid
                            /\ a.alert_type = alert_type
                            /\ a.resolved_at = None})

\* Variant of insert_alert for which an acknowledged alert blocks no more
insert_alert_UnlessAcknowledged(al, sid, alert_type, severity, message, clock, alert_id) ==
    IF {a \in al : /\ a.skill_id = sid /\ a.alert_type = alert_type
                   /\ ~a.acknowledged} = {}
        THEN al \cup {Alert(alert_id, sid, alert_type, severity, message, clock)}
        ELSE al

\* AlertDetector::insert_alert: the table after the call
insert_alert(al, sid, alert_type, severity, message, clock, alert_id) ==
    IF Existing(al, sid, alert_type) = 0
        THEN al \cup {Alert(alert_id, sid, alert_type, severity, message, clock)}
        ELSE al

\* Variant of the acknowledgement that also resolves the alert
acknowledge_alert_Resolve(al, alert_id) ==
    {IF a.id = alert_id
        THEN [a EXCEPT !.acknowledged = TRUE, !.resolved_at = Some(0)]
        ELSE a : a \in al}

\* UPDATE analytics_alerts SET acknowledged = 1 WHERE id = ?1
acknowledge_alert(al, alert_id) ==
    {IF a.id = alert_id THEN [a EXCEPT !.acknowledged = TRUE] ELSE a : a \in al}

\* SELECT ... FROM analytics_alerts WHERE resolved_at IS NULL
\* ORDER BY detected_at DESC: the results the statement can produce (the
\* order among equal detected_at is the query plan's)
get_active_alerts(al) ==
    LET active == {a \in al : a.resolved_at = None}
    IN  {p \in [1..Cardinality(active) -> active] :
            /\ \A i, j \in DOMAIN p : i # j => p[i] # p[j]
            /\ \A i, j \in DOMAIN p : i < j => p[i].detected_at >= p[j].detected_at}

-----------------------------------------------------------------------------
(* Daily aggregation *)

\* date(timestamp, 'unixepoch')
DateOf(ts) == ts \div DAY

\* One row of the SELECT ... GROUP BY skill_id of aggregate_daily_stats
DailyStat(sel, sid, date) ==
    LET g == OfSkill(sel, sid)
        d == WithDuration(g)
    IN  [skill_id |-> sid,
         date |-> date,
         total_calls |-> Cardinality(g),
         success_count |-> The(SumCase(g, TRUE)),
         fail_count |-> The(SumCase(g, FALSE)),
         p50_ms |-> None, p95_ms |-> None, p99_ms |-> None,
         avg_ms |-> IF d = {} THEN None
                    ELSE Some(<<SumDuration(d), Cardinality(d)>>),
         unique_users |-> CountDistinctUsers(g)]

\* Variant of the upsert that empties the table first: DELETE, then INSERT
UpsertDaily_Truncate(st, new) == new

\* INSERT OR REPLACE INTO skill_daily_stats, primary key (skill_id, date)
UpsertDaily(st, new) ==
    {o \in st : ~\E n \in new : n.skill_id = o.skill_id /\ n.date = o.date}
    \cup new

\* Variant of the aggregation that adds the day's calls to the old row's
aggregate_daily_stats_Accumulate(st, ev, date) ==
    LET sel == {e \in ev : DateOf(e.timestamp) = date}
        Old(sid) == {o \in st : o.skill_id = sid /\ o.date = date}
        Before(sid) == IF Old(sid) = {} THEN 0
                       ELSE (CHOOSE o \in Old(sid) : TRUE).total_calls
    IN  UpsertDaily(st, {[DailyStat(sel, sid, date) EXCEPT
                            !.total_calls = @ + Before(sid)]
                         : sid \in {e.skill_id : e \in sel}})

\* AnalyticsStore::aggregate_daily_stats: the table after the call
aggregate_daily_stats(st, ev, date) ==
    LET sel == {e \in ev : DateOf(e.timestamp) = date}
    IN  UpsertDaily(st, {DailyStat(sel, sid, date) : sid \in {e.skill_id : e \in sel}})

\* SUM(<column>) over a set of skill_daily_stats rows
RECURSIVE SumColumn(_, _)
SumColumn(rows, column) ==
    IF rows = {} THEN 0
    ELSE LET r == CHOOSE x \in rows : TRUE
         IN  r[column] + SumColumn(rows \ {r}, column)

\* SUM(avg_ms) over rows that all have one, as a fraction
RECURSIVE SumAvg(_)
SumAvg(rows) ==
    IF rows = {} THEN <<0, 1>>
    ELSE LET r == CHOOSE x \in rows : TRUE
             a == The(r.avg_ms)
             rest == SumAvg(rows \ {r})
         IN  <<a[1] * rest[2] + rest[1] * a[2], a[2] * rest[2]>>

\* ORDER BY date ASC, for rows of distinct dates
OrderByDateAsc(rows) ==
    [i \in 1..Cardinality(rows) |->
        CHOOSE r \in rows : Cardinality({q \in rows : q.date < r.date}) = i - 1]

\* The row of SELECT date, SUM(total_calls), ..., NULL, NULL, NULL,
\* AVG(avg_ms), SUM(unique_users) ... GROUP BY date, returned under the
\* skill_id "all"
AllSkillsRow(rows, date) ==
    LET g == {r \in rows : r.date = date}
        withAvg == {r \in g : r.avg_ms # None}
    IN  [skill_id |-> "all",
         date |-> date,
         total_calls |-> SumColumn(g, "total_calls"),
         success_count |-> SumColumn(g, "success_count"),
         fail_count |-> SumColumn(g, "fail_count"),
         p50_ms |-> None, p95_ms |-> None, p99_ms |-> None,
         avg_ms |-> IF withAvg = {} THEN None
                    ELSE Some(<<SumAvg(withAvg)[1],
                                SumAvg(withAvg)[2] * Cardinality(withAvg)>>),
         unique_users |-> SumColumn(g, "unique_users")]

\* AnalyticsStore::get_success_rate_trend
get_success_rate_trend(st, clock, skill_id, days) ==
    LET rows == {r \in st : r.date >= DateOf(clock - days * DAY)}
    IN  IF skill_id # None
            THEN OrderByDateAsc({r \in rows : r.skill_id = The(skill_id)})
            ELSE OrderByDateAsc({AllSkillsRow(rows, d) : d \in {r.date : r \in rows}})

-----------------------------------------------------------------------------
(* SkillStore::ensure_schema and the setup of the application *)

SCHEMA_VERSION == 6

\* What SCHEMA_V1 creates (IF NOT EXISTS)
SCHEMA_V1 ==
    {"skills", "skills.description", "skills.category", "skill_targets",
     "settings", "scan_paths", "discovered_skills", "categories"}

\* The database after the branch of ensure_schema taken at version v, the
\* number of the migration it ran, and whether the call returns Ok
Branch(objects, v) ==
    IF v = 0 THEN
        [objects |-> objects \cup SCHEMA_V1, user_version |-> SCHEMA_VERSION,
         ran |-> <<1>>, ok |-> TRUE]
    ELSE IF v = 1 THEN
        [objects |-> objects \cup {"skills.description"}, user_version |-> 2,
         ran |-> <<2>>, ok |-> TRUE]
    ELSE IF v = 2 THEN
        [objects |-> objects \cup {"skills.category"}, user_version |-> 3,
         ran |-> <<3>>, ok |-> TRUE]
    ELSE IF v = 3 THEN
        [objects |-> objects \cup {"categories"}, user_version |-> 4,
         ran |-> <<4>>, ok |-> TRUE]
    ELSE IF v = 4 THEN
        [objects |-> (objects \ {"discovered_skills"}) \cup {"discovered_skills v5"},
         user_version |-> 5, ran |-> <<5>>, ok |-> TRUE]
    ELSE IF v = 5 THEN
        [objects |-> objects \cup {"ai_agents"}, user_version |-> 6,
         ran |-> <<6>>, ok |-> TRUE]
    ELSE IF v > SCHEMA_VERSION THEN
        [objects |-> objects, user_version |-> v, ran |-> <<>>, ok |-> FALSE]
    ELSE
        [objects |-> objects, user_version |-> v, ran |-> <<>>, ok |-> TRUE]

\* Variant of ensure_schema that takes a newer database for its own
ensure_schema_Downgrade(d) ==
    LET b == Branch(d.objects, d.user_version)
    IN  [objects |-> b.objects \cup {"scan_paths"},
         user_version |-> Min(b.user_version, SCHEMA_VERSION),
         ran |-> b.ran, ok |-> TRUE]

\* SkillStore::ensure_schema: one branch of the chain, then, unless the
\* branch bailed out, CREATE TABLE IF NOT EXISTS scan_paths
ensure_schema(d) ==
    LET b == Branch(d.objects, d.user_version)
    IN  IF b.ok THEN [b EXCEPT !.objects = @ \cup {"scan_paths"}] ELSE b

\* The tables of a database that an application of schema version v left
RECURSIVE ObjectsAt(_)
ObjectsAt(v) ==
    IF v = 0 THEN {}
    ELSE IF v = 1 THEN {"skills", "skill_targets", "settings", "discovered_skills"}
    ELSE IF v > SCHEMA_VERSION THEN ObjectsAt(SCHEMA_VERSION) \cup {"newer"}
    ELSE Branch(ObjectsAt(v - 1), v - 1).objects

\* Both stores are open and served; the skills database is current
Opened ==
    [user_version |-> SCHEMA_VERSION,
     objects |-> ObjectsAt(SCHEMA_VERSION) \cup {"scan_paths"},
     ran |-> <<>>, phase |-> "serving"]

-----------------------------------------------------------------------------
(* Inputs *)

\* Request bodies sent to POST /v1/events.  read: the body could be read as
\* UTF-8 text; json: the text is JSON of the right shape.
Body3(read, json, evs) == [read |-> read, json |-> json, events |-> evs]

WirePrev ==     \* skill A, the same hour one day earlier (sent with offset +01:00)
    Wire(Some("A"), Some(Rfc(T0 - DAY - 1800 + HOUR, HOUR)), Some("u1"),
         Some(TRUE), Some(100))
WireNoTs ==     \* skill A, a timestamp that is no RFC 3339 text, slow
    Wire(Some("A"), Some(NotRfc), Some("u2"), Some(TRUE), Some(400))
WireB ==        \* skill B, this second
    Wire(Some("B"), Some(Rfc(T0, 0)), Some("u1"), Some(TRUE), Some(50))
WireNoSuccess == \* lacks the required field success
    Wire(Some("B"), Some(Rfc(T0, 0)), Some("u1"), None, Some(50))

\* A JSON object of "events" that also has the key "id".  IngestEvent has no
\* field id and does not deny unknown fields: the key is skipped on parsing.
WithId(e, id) ==
    [k \in DOMAIN e \cup {"id"} |-> IF k = "id" THEN id ELSE e[k]]

\* Ids chosen by the sender of events
CallerIds == {"k1", "k2"}

\* The event a caller sends under an id: one call per id, told apart by user
SentEvent(k) ==
    WithId(Wire(Some(IF k = "k1" THEN "A" ELSE "B"), Some(Rfc(T0, 0)),
                Some(IF k = "k1" THEN "u1" ELSE "u2"), Some(TRUE), Some(70)), k)

\* Requests of a sender that repeats an event: alone, twice in one request,
\* and beside another event
ResendBodies ==
    {Body3(TRUE, TRUE, <<SentEvent("k1")>>),
     Body3(TRUE, TRUE, <<SentEvent("k1"), SentEvent("k1")>>),
     Body3(TRUE, TRUE, <<SentEvent("k1"), SentEvent("k2")>>)}

Bodies ==
    {Body3(FALSE, FALSE, <<>>),
     Body3(TRUE, FALSE, <<>>),
     Body3(TRUE, TRUE, <<WireB, WireNoSuccess>>),
     Body3(TRUE, TRUE, <<>>),
     Body3(TRUE, TRUE, <<WirePrev>>),
     Body3(TRUE, TRUE, <<WirePrev, WireB>>),
     Body3(TRUE, TRUE, <<WireNoTs, WireB>>)}

\* Rows a database file holds when the store is opened on it, written by an
\* earlier run: 20 calls of skill A in this second, 3 of them failed, and one
\* call of skill A in the same hour of the day before
StoredId == 10
Stored ==
    {Row(StoredId + k, "A", T0, "u1", k > 3, None) : k \in 1..MIN_CALLS}
    \cup {Row(StoredId, "A", T0 - DAY - 1800, "u1", TRUE, Some(100))}

\* Batches a caller inside the process passes to insert_events, with ids it
\* chose itself (as core/tests/analytics.rs does)
Batches ==
    {<<Row(1, "A", T0, "u1", TRUE, Some(100)),
       Row(2, "B", T0 - 2 * DAY, "u2", TRUE, None),
       Row(1, "A", T0, "u2", FALSE, Some(900))>>}

\* A second batch of a caller inside the process: one slow call of skill A
SlowBatch == <<Row(3, "A", T0, "u2", TRUE, Some(400))>>

\* Rows skill_daily_stats holds when the store is opened on Stored: those of
\* an aggregation of today and of the day before that ran when only the
\* first five of today's calls were stored
StaleCalls == 5
StaleStats ==
    LET early == {e \in Stored : e.id <= StoredId + StaleCalls}
    IN  {DailyStat(early, "A", DateOf(T0)),
         DailyStat(early, "A", DateOf(T0 - DAY - 1800))}

\* Dates aggregate_daily_stats is called for: today and the two days before
DateArgs == {DateOf(T0) - k : k \in 0..2}

DaysArgs == {1, 7}
LimitArgs == {-1, 0, 1, 2, 10}

\* Rows of which a store under query holds any subset: at the ends of the
\* one-day and seven-day windows, in the future, with and without duration
QueryRows ==
    {Row(1, "A", T0, "u1", TRUE, Some(100)),
     Row(2, "A", T0 - DAY, "u2", FALSE, None),
     Row(3, "A", T0 - DAY - 1, "u1", TRUE, Some(300)),
     Row(4, "B", T0, "u1", FALSE, Some(50)),
     Row(5, "B", T0 + 60, "u2", TRUE, None),
     Row(6, "C", T0 - 7 * DAY, "u2", TRUE, Some(100)),
     Row(7, "C", T0 - 8 * DAY, "u1", FALSE, Some(10))}

NowValues == {T0 + k * HOUR : k \in 0..MaxTicks}

\* Stores the detector is run on.  CallStore: n calls of skill A in the
\* trailing hour, the first half at its start, f of them failed; with old,
\* failed calls of A one second before the hour; with other, failed calls of
\* skill B in the hour.
MaxFailures == 4
CallCounts == {MIN_CALLS - 1, MIN_CALLS, MIN_CALLS + 1,
               3 * RATE_DEN - 1, 3 * RATE_DEN}
CallStore(n, f, old, other) ==
    {Row(k, "A", IF 2 * k <= n THEN T0 - HOUR ELSE T0, "u1", k > f, None)
        : k \in 1..n}
    \cup (IF old THEN {Row(40 + k, "A", T0 - HOUR - 1, "u1", FALSE, None)
                        : k \in 1..MaxFailures} ELSE {})
    \cup (IF other THEN {Row(50 + k, "B", T0, "u1", FALSE, None)
                          : k \in 1..MaxFailures} ELSE {})
CallStores ==
    {CallStore(n, f, old, other) :
        n \in CallCounts, f \in 0..MaxFailures, old \in BOOLEAN, other \in BOOLEAN}

\* LatencyStores: any subset of calls with a duration, at and around the ends
\* of the trailing hour and of the same hour one day earlier
LatencyRows ==
    {Row(1, "A", T0, "u1", TRUE, Some(301)),
     Row(2, "A", T0 - HOUR, "u1", TRUE, Some(300)),
     Row(3, "A", T0 - HOUR - 1, "u1", TRUE, Some(900)),
     Row(4, "B", T0, "u1", TRUE, Some(900)),
     Row(5, "A", T0 - DAY - HOUR, "u1", TRUE, Some(100)),
     Row(6, "A", T0 - DAY - 1, "u1", TRUE, Some(0)),
     Row(7, "A", T0 - DAY, "u1", TRUE, Some(1)),
     Row(8, "A", T0 - DAY - HOUR - 1, "u1", TRUE, Some(1)),
     Row(9, "B", T0 - DAY - 1, "u1", TRUE, Some(1))}
LatencyStores == SUBSET LatencyRows

\* SampleStores: n calls with a duration in the trailing hour and m in the
\* same hour one day earlier, of skill A, with durations 10, 20, ... or, tied,
\* 10, 10, 20, 20, ...; with or without failed calls that have no duration
MaxSamples == 21
SampleCounts == {0, 1, 2, MaxSamples - 2, MaxSamples - 1, MaxSamples}
SampleStore(n, m, ties, nulls) ==
    {Row(k, "A", T0, "u1", TRUE,
         Some(10 * (IF ties THEN (k + 1) \div 2 ELSE k))) : k \in 1..n}
    \cup {Row(50 + k, "A", T0 - DAY - 1800, "u1", TRUE,
              Some(10 * (IF ties THEN (k + 1) \div 2 ELSE k))) : k \in 1..m}
    \cup (IF nulls THEN {Row(90 + k, "A", T0, "u2", FALSE, None) : k \in 1..3}
                         \cup {Row(99, "A", T0 - DAY - 1800, "u2", FALSE, None)}
                   ELSE {})
SampleStores ==
    {SampleStore(n, m, ties, nulls) :
        n \in SampleCounts, m \in SampleCounts,
        ties \in BOOLEAN, nulls \in BOOLEAN}

-----------------------------------------------------------------------------
(* State *)

\* sent and added are history, as in resp
\* ran is history: the run_checks calls of this request that have returned,
\* each as <<skill, "Ok" or "Err">>
NoLoc == [rows |-> <<>>, i |-> 0, count |-> 0, sent |-> 0, added |-> 0,
          todo |-> {}, sid |-> "", msg |-> NoMsg, out |-> <<>>, ran |-> <<>>]
\* sent and added are history: the length of the batch and the rows it added
NoResp == [status |-> "none", count |-> 0, sent |-> 0, added |-> 0,
           ran |-> <<>>]
NoObs == [op |-> "none", days |-> 0, limit |-> 0, skill_id |-> None,
          res |-> <<>>]

Init ==
    /\ now = T0
    /\ events \in {{}, Stored}
    /\ alerts = {}
    /\ stats = {}
    /\ db = Opened
    /\ lock = "none"
    /\ txBase = {}
    /\ nextUuid = FirstUuid
    /\ pc = [t \in Threads |-> "idle"]
    /\ loc = [t \in Threads |-> NoLoc]
    /\ resp = [t \in Threads |-> NoResp]
    /\ obs = NoObs

\* Variant without the mutex
LockFree_NoMutex == TRUE

\* self.conn.lock() returns: no other thread holds the connection
LockFree == lock = "none"

\* The clock moves on.
Tick ==
    /\ \E n \in NowValues : n > now /\ now' = n
    /\ UNCHANGED <<db, stats, events, alerts, lock, txBase, nextUuid, pc, loc, resp, obs>>

-----------------------------------------------------------------------------
(* start_ingest_server: POST /v1/events *)

\* The body cannot be read or parsed: 400, next request
PostRejected(body) ==
    /\ pc["srv"] = "idle"
    /\ ~body.read \/ from_str(body) = None
    /\ resp' = [resp EXCEPT !["srv"] = [NoResp EXCEPT !.status = "400"]]
    /\ loc' = [loc EXCEPT !["srv"] = NoLoc]
    /\ UNCHANGED <<db, stats, now, events, alerts, lock, txBase, nextUuid, pc, obs>>

\* The body parses: rows = events.map(to_row), then insert_events(&rows)
PostParsed(body) ==
    /\ pc["srv"] = "idle"
    /\ body.read /\ from_str(body) # None
    /\ LET evs == The(from_str(body)) IN
        /\ nextUuid + Len(evs) <= FirstUuid + MaxUuids
        /\ nextUuid' = nextUuid + Len(evs)
        /\ loc' = [loc EXCEPT !["srv"] =
                [NoLoc EXCEPT !.rows =
                    [i \in 1..Len(evs) |-> to_row(evs[i], nextUuid + i - 1, now)]]]
    /\ pc' = [pc EXCEPT !["srv"] = "insert"]
    /\ resp' = [resp EXCEPT !["srv"] = NoResp]
    /\ UNCHANGED <<db, stats, now, events, alerts, lock, txBase, obs>>

\* A caller inside the process calls insert_events(batch)
ApiInsertEvents(batch) ==
    /\ pc["api"] = "idle"
    /\ loc' = [loc EXCEPT !["api"] = [NoLoc EXCEPT !.rows = batch]]
    /\ pc' = [pc EXCEPT !["api"] = "insert"]
    /\ resp' = [resp EXCEPT !["api"] = NoResp]
    /\ UNCHANGED <<db, stats, now, events, alerts, lock, txBase, nextUuid, obs>>

-----------------------------------------------------------------------------
(* AnalyticsStore::insert_events, statement by statement *)

\* conn.lock(); conn.unchecked_transaction()
InsertBegin(t) ==
    /\ pc[t] = "insert"
    /\ LockFree
    /\ lock' = t
    /\ txBase' = events
    /\ loc' = [loc EXCEPT ![t].i = 1, ![t].count = 0]
    /\ pc' = [pc EXCEPT ![t] = "tx"]
    /\ UNCHANGED <<db, stats, now, events, alerts, nextUuid, resp, obs>>

\* tx.execute("INSERT OR IGNORE ..."); count += 1
InsertRow(t) ==
    /\ pc[t] = "tx"
    /\ loc[t].i <= Len(loc[t].rows)
    /\ events' = InsertOrIgnore(events, loc[t].rows[loc[t].i])
    /\ loc' = [loc EXCEPT ![t].i = @ + 1,
                          ![t].count = CountRow(events, loc[t].rows[loc[t].i], @)]
    /\ UNCHANGED <<db, stats, now, alerts, lock, txBase, nextUuid, pc, resp, obs>>

\* tx.execute or tx.commit returns an error: ? returns it, the transaction is
\* dropped and rolls back, the guard is dropped.  The server answers 500.
InsertFail(t) ==
    /\ pc[t] = "tx"
    /\ events' = txBase
    /\ lock' = "none"
    /\ pc' = [pc EXCEPT ![t] = "idle"]
    /\ resp' = [resp EXCEPT ![t] =
            [NoResp EXCEPT !.status = IF t = "srv" THEN "500" ELSE "Err"]]
    /\ loc' = [loc EXCEPT ![t] = NoLoc]
    /\ UNCHANGED <<db, stats, now, alerts, txBase, nextUuid, obs>>

\* Variant of the commit that returns with the connection still locked
InsertCommit_KeepLock(t) ==
    /\ pc[t] = "tx"
    /\ loc[t].i > Len(loc[t].rows)
    /\ lock' = lock
    /\ IF t = "srv"
        THEN /\ pc' = [pc EXCEPT ![t] = "checks"]
             /\ loc' = [loc EXCEPT ![t] = [NoLoc EXCEPT
                    !.rows = loc[t].rows,
                    !.count = loc[t].count,
                    !.sent = Len(loc[t].rows),
                    !.added = Cardinality(events) - Cardinality(txBase),
                    !.todo = {loc[t].rows[i].skill_id : i \in 1..Len(loc[t].rows)}]]
             /\ resp' = resp
        ELSE /\ pc' = [pc EXCEPT ![t] = "idle"]
             /\ loc' = [loc EXCEPT ![t] = NoLoc]
             /\ resp' = [resp EXCEPT ![t] =
                    [status |-> "Ok", count |-> loc[t].count,
                     sent |-> Len(loc[t].rows),
                     added |-> Cardinality(events) - Cardinality(txBase),
                     ran |-> <<>>]]
    /\ UNCHANGED <<db, stats, now, events, alerts, txBase, nextUuid, obs>>

\* tx.commit(); Ok(count).  The server goes on to the alert checks of
\* unique_skills; another caller has its result.
InsertCommit(t) ==
    /\ pc[t] = "tx"
    /\ loc[t].i > Len(loc[t].rows)
    /\ lock' = "none"
    /\ IF t = "srv"
        THEN /\ pc' = [pc EXCEPT ![t] = "checks"]
             /\ loc' = [loc EXCEPT ![t] = [NoLoc EXCEPT
                    !.rows = loc[t].rows,
                    !.count = loc[t].count,
                    !.sent = Len(loc[t].rows),
                    !.added = Cardinality(events) - Cardinality(txBase),
                    !.todo = {loc[t].rows[i].skill_id : i \in 1..Len(loc[t].rows)}]]
             /\ resp' = resp
        ELSE /\ pc' = [pc EXCEPT ![t] = "idle"]
             /\ loc' = [loc EXCEPT ![t] = NoLoc]
             /\ resp' = [resp EXCEPT ![t] =
                    [status |-> "Ok", count |-> loc[t].count,
                     sent |-> Len(loc[t].rows),
                     added |-> Cardinality(events) - Cardinality(txBase),
                     ran |-> <<>>]]
    /\ UNCHANGED <<db, stats, now, events, alerts, txBase, nextUuid, obs>>

-----------------------------------------------------------------------------
(* The server's loop over unique_skills, and AlertDetector::run_checks *)

\* Variant of the loop that does not move on to the next skill
NextSkill_Repeat(sid) ==
    /\ pc["srv"] = "checks"
    /\ sid \in loc["srv"].todo
    /\ Len(loc["srv"].ran) <= Cardinality(loc["srv"].todo)
    /\ loc' = [loc EXCEPT !["srv"].sid = sid,
                          !["srv"].msg = NoMsg, !["srv"].out = <<>>]
    /\ pc' = [pc EXCEPT !["srv"] = "fs"]
    /\ UNCHANGED <<db, stats, now, events, alerts, lock, txBase, nextUuid, resp, obs>>

\* Variant of the loop that runs the checks for a skill the batch may not
\* contain
NextSkill_AnySkill(sid) ==
    /\ pc["srv"] = "checks"
    /\ loc["srv"].todo # {}
    /\ loc' = [loc EXCEPT !["srv"].todo = @ \ {CHOOSE x \in @ : TRUE},
                          !["srv"].sid = sid,
                          !["srv"].msg = NoMsg, !["srv"].out = <<>>]
    /\ pc' = [pc EXCEPT !["srv"] = "fs"]
    /\ UNCHANGED <<db, stats, now, events, alerts, lock, txBase, nextUuid, resp, obs>>

\* for sid in &unique_skills (a HashSet: any order)
NextSkill(sid) ==
    /\ pc["srv"] = "checks"
    /\ sid \in loc["srv"].todo
    /\ loc' = [loc EXCEPT !["srv"].todo = @ \ {sid}, !["srv"].sid = sid,
                          !["srv"].msg = NoMsg, !["srv"].out = <<>>]
    /\ pc' = [pc EXCEPT !["srv"] = "fs"]
    /\ UNCHANGED <<db, stats, now, events, alerts, lock, txBase, nextUuid, resp, obs>>

\* The loop is over: 200 {"accepted": count}
Respond200 ==
    /\ pc["srv"] = "checks"
    /\ loc["srv"].todo = {}
    /\ resp' = [resp EXCEPT !["srv"] =
            [status |-> "200", count |-> loc["srv"].count,
             sent |-> loc["srv"].sent, added |-> loc["srv"].added,
             ran |-> loc["srv"].ran]]
    /\ pc' = [pc EXCEPT !["srv"] = "idle"]
    /\ loc' = [loc EXCEPT !["srv"] = NoLoc]
    /\ UNCHANGED <<db, stats, now, events, alerts, lock, txBase, nextUuid, obs>>

\* A caller inside the process calls AlertDetector::run_checks(store, sid)
ApiRunChecks(sid) ==
    /\ pc["api"] = "idle"
    /\ loc' = [loc EXCEPT !["api"] = [NoLoc EXCEPT !.sid = sid]]
    /\ pc' = [pc EXCEPT !["api"] = "fs"]
    /\ resp' = [resp EXCEPT !["api"] = NoResp]
    /\ UNCHANGED <<db, stats, now, events, alerts, lock, txBase, nextUuid, obs>>

\* Variant in which the server gives up the request when run_checks fails
Returned_Propagate(t, status) ==
    /\ pc' = [pc EXCEPT ![t] = IF t = "srv" /\ status = "Ok" THEN "checks" ELSE "idle"]
    /\ resp' = IF t = "srv" /\ status = "Ok" THEN resp
               ELSE [resp EXCEPT ![t] = [NoResp EXCEPT
                        !.status = IF t = "srv" THEN "500" ELSE status]]
    /\ loc' = [loc EXCEPT ![t] = IF t = "srv" /\ status = "Ok"
                    THEN [@ EXCEPT !.sid = "", !.msg = NoMsg, !.out = <<>>,
                                   !.ran = Append(@, <<loc[t].sid, status>>)]
                    ELSE NoLoc]

\* run_checks is left: the server logs an error and takes the next skill,
\* another caller has the result
Returned(t, status) ==
    /\ pc' = [pc EXCEPT ![t] = IF t = "srv" THEN "checks" ELSE "idle"]
    /\ resp' = IF t = "srv" THEN resp
               ELSE [resp EXCEPT ![t] = [NoResp EXCEPT !.status = status]]
    /\ loc' = [loc EXCEPT ![t].sid = "", ![t].msg = NoMsg, ![t].out = <<>>,
                          ![t].ran = IF t = "srv"
                                        THEN Append(@, <<loc[t].sid, status>>)
                                        ELSE @]

\* Self::check_failure_spike(store, skill_id)?
CheckFailureSpike(t) ==
    /\ pc[t] = "fs"
    /\ LockFree
    /\ LET r == check_failure_spike(events, now, loc[t].sid) IN
        CASE r.kind = "Err" -> Returned(t, "Err")
          [] r.kind = "Some" ->
                /\ pc' = [pc EXCEPT ![t] = "alert_f"]
                /\ loc' = [loc EXCEPT ![t].msg = r.msg]
                /\ resp' = resp
          [] OTHER ->
                /\ pc' = [pc EXCEPT ![t] = "ls"]
                /\ loc' = loc
                /\ resp' = resp
    /\ UNCHANGED <<db, stats, now, events, alerts, lock, txBase, nextUuid, obs>>

\* Self::insert_alert(store, skill_id, "failure_spike", "critical", &msg)?
InsertFailureAlert(t) ==
    /\ pc[t] = "alert_f"
    /\ LockFree
    /\ alerts' = insert_alert(alerts, loc[t].sid, "failure_spike", "critical",
                              loc[t].msg, now, nextUuid)
    \* a Uuid::new_v4 that is not stored is dropped: it is as if never drawn
    /\ nextUuid' = IF alerts' # alerts THEN nextUuid + 1 ELSE nextUuid
    /\ loc' = [loc EXCEPT ![t].out = Append(@, loc[t].msg)]
    /\ pc' = [pc EXCEPT ![t] = "ls"]
    /\ UNCHANGED <<db, stats, now, events, lock, txBase, resp, obs>>

\* Self::check_latency_spike(store, skill_id)?
CheckLatencySpike(t) ==
    /\ pc[t] = "ls"
    /\ LockFree
    /\ LET r == check_latency_spike(events, now, loc[t].sid) IN
        IF r.kind = "Some"
            THEN /\ pc' = [pc EXCEPT ![t] = "alert_l"]
                 /\ loc' = [loc EXCEPT ![t].msg = r.msg]
                 /\ resp' = resp
            ELSE Returned(t, "Ok")
    /\ UNCHANGED <<db, stats, now, events, alerts, lock, txBase, nextUuid, obs>>

\* Self::insert_alert(store, skill_id, "latency_spike", "warning", &msg)?
InsertLatencyAlert(t) ==
    /\ pc[t] = "alert_l"
    /\ LockFree
    /\ alerts' = insert_alert(alerts, loc[t].sid, "latency_spike", "warning",
                              loc[t].msg, now, nextUuid)
    \* a Uuid::new_v4 that is not stored is dropped: it is as if never drawn
    /\ nextUuid' = IF alerts' # alerts THEN nextUuid + 1 ELSE nextUuid
    /\ Returned(t, "Ok")
    /\ UNCHANGED <<db, stats, now, events, lock, txBase, obs>>

-----------------------------------------------------------------------------
(* Calls of the command layer (commands/analytics.rs), each under the lock *)

Observed(op, days, limit, res) ==
    [op |-> op, days |-> days, limit |-> limit, skill_id |-> None, res |-> res]

GetOverview(days) ==
    /\ LockFree
    /\ obs' = Observed("get_overview", days, 0, get_overview(events, now, days))
    /\ UNCHANGED <<db, stats, now, events, alerts, lock, txBase, nextUuid, pc, loc, resp>>

GetTopSkills(days, limit) ==
    /\ LockFree
    /\ \E r \in get_top_skills(events, now, days, limit) :
            obs' = Observed("get_top_skills", days, limit, r)
    /\ UNCHANGED <<db, stats, now, events, alerts, lock, txBase, nextUuid, pc, loc, resp>>

GetSuccessRateTrend(skill_id, days) ==
    /\ LockFree
    /\ obs' = [Observed("get_success_rate_trend", days, 0,
                        get_success_rate_trend(stats, now, skill_id, days))
                    EXCEPT !.skill_id = skill_id]
    /\ UNCHANGED <<db, stats, now, events, alerts, lock, txBase, nextUuid, pc, loc, resp>>

AcknowledgeAlert(alert_id) ==
    /\ LockFree
    /\ alerts' = acknowledge_alert(alerts, alert_id)
    /\ UNCHANGED <<db, stats, now, events, lock, txBase, nextUuid, pc, loc, resp, obs>>

\* Variant of the aggregation that deletes the events it has aggregated
AggregateDailyStats_Purge(date) ==
    /\ LockFree
    /\ stats' = aggregate_daily_stats(stats, events, date)
    /\ events' = {e \in events : DateOf(e.timestamp) # date}
    /\ UNCHANGED <<db, now, alerts, lock, txBase, nextUuid, pc, loc, resp, obs>>

\* A caller inside the process calls aggregate_daily_stats(date)
AggregateDailyStats(date) ==
    /\ LockFree
    /\ stats' = aggregate_daily_stats(stats, events, date)
    /\ UNCHANGED <<db, now, events, alerts, lock, txBase, nextUuid, pc, loc, resp, obs>>

-----------------------------------------------------------------------------
(* The setup of the application (lib.rs) *)

\* store.ensure_schema().map_err(tauri::Error::from)?
EnsureSchema ==
    /\ db.phase = "start"
    /\ LET r == ensure_schema(db) IN
        db' = [user_version |-> r.user_version, objects |-> r.objects,
               ran |-> r.ran,
               phase |-> IF r.ok THEN "migrated" ELSE "failed"]
    /\ UNCHANGED <<now, events, alerts, stats, lock, txBase, nextUuid, pc, loc,
                   resp, obs>>

\* AnalyticsStore::new(analytics_db_path)?, whose ensure_schema creates what
\* does not exist, then the ingest server is started and the stores are
\* handed to the commands.  fault: the analytics database cannot be opened.
OpenAnalytics(fault) ==
    /\ db.phase = "migrated"
    /\ db' = [db EXCEPT !.phase = IF fault THEN "failed" ELSE "serving"]
    /\ UNCHANGED <<now, events, alerts, stats, lock, txBase, nextUuid, pc, loc,
                   resp, obs>>

\* The application is closed and started again
Restart ==
    /\ db.phase \in {"serving", "failed"}
    /\ db' = [db EXCEPT !.phase = "start", !.ran = <<>>]
    /\ UNCHANGED <<now, events, alerts, stats, lock, txBase, nextUuid, pc, loc,
                   resp, obs>>

\* The commands and the server exist once the setup has come through
Serving == db.phase = "serving"

-----------------------------------------------------------------------------
(* start_ingest_server: GET /v1/analytics/... *)

DEFAULT_DAYS_SHORT == 7
DEFAULT_DAYS_LONG == 30
DEFAULT_LIMIT == 10

Routes == {"overview", "top_skills", "daily_trend", "success_rate",
           "cost_summary", "caller_analysis", "user_retention", "alerts"}

\* The store function each arm of the match calls
StoreQuery(route) ==
    CASE route = "overview" -> "get_overview"
      [] route = "top_skills" -> "get_top_skills"
      [] route = "daily_trend" -> "get_daily_trend"
      [] route = "success_rate" -> "get_success_rate_trend"
      [] route = "cost_summary" -> "get_cost_summary"
      [] route = "caller_analysis" -> "get_caller_analysis"
      [] route = "user_retention" -> "get_user_retention"
      [] route = "alerts" -> "get_active_alerts"

\* request.url() is the request target as sent: "/v1/analytics/" ++ route,
\* and when the client gives parameters ++ "?" ++ query.  query is None
\* when the target has no "?" part.
NoParams == [days |-> None, limit |-> None, skill_id |-> None]
Url(route, query) == [route |-> route, query |-> query]

\* Targets of GET requests: every route and an unknown one without
\* parameters, and three routes with parameters
GetUrls ==
    {Url(r, None) : r \in Routes \cup {"nope"}}
    \cup {Url("overview", Some([NoParams EXCEPT !.days = Some(3)])),
          Url("top_skills",
              Some([NoParams EXCEPT !.days = Some(3), !.limit = Some(5)])),
          Url("success_rate",
              Some([NoParams EXCEPT !.days = Some(3), !.skill_id = Some("A")]))}

\* path.strip_prefix("/v1/analytics/"): all that follows the prefix, the
\* "?" part included
query_path(url) == url

\* match query_path { "<name>" => ..: the whole string equals the literal
MatchArm(qp, name) == qp.route = name /\ qp.query = None

\* request_url.query_pairs().find(|(k, _)| k == key) and the parse of the
\* value; every value sent here is a decimal number or a skill id
query_pairs_find(url, key) ==
    IF url.query = None THEN None ELSE The(url.query)[key]

unwrap_or(opt, default) == IF opt = None THEN default ELSE The(opt)

\* The rows a store query answers whose tables and computation are not part
\* of this model: the call stands for them
ResultOf(fn, days, skill_id) == [query |-> fn, days |-> days, skill_id |-> skill_id]

\* {"error": "Failed to fetch overview"}
ErrorBody == [error |-> "Failed to fetch overview"]

\* .unwrap_or_default() of a Vec
DefaultBody == <<>>

\* .with_status_code(200), whatever the query returned
GetStatus(failed) == "200"

\* One GET request, from the match to the response.  fault: the store's
\* query returns an error (the database cannot be read).
HttpGet(url, fault) ==
    /\ pc["srv"] = "idle"
    /\ LET qp == query_path(url)
           known == \E name \in Routes : MatchArm(qp, name)
           short == url.route \in {"overview", "top_skills"}
           days == unwrap_or(query_pairs_find(url, "days"),
                             IF short THEN DEFAULT_DAYS_SHORT ELSE DEFAULT_DAYS_LONG)
           limit == unwrap_or(query_pairs_find(url, "limit"), DEFAULT_LIMIT)
           skill_id == query_pairs_find(url, "skill_id")
           overview == IF fault THEN Err ELSE get_overview(events, now, days)
           failed == fault \/ (url.route = "overview" /\ ~overview.ok)
           bodies ==
                CASE url.route = "overview" ->
                        {IF overview.ok THEN overview ELSE ErrorBody}
                  [] url.route = "top_skills" ->
                        IF fault THEN {DefaultBody}
                        ELSE get_top_skills(events, now, days, limit)
                  [] url.route = "alerts" ->
                        IF fault THEN {DefaultBody} ELSE get_active_alerts(alerts)
                  [] OTHER ->
                        {IF fault THEN DefaultBody
                         ELSE <<ResultOf(StoreQuery(url.route), days, skill_id)>>}
       IN  IF known
            THEN /\ LockFree
                 /\ resp' = [resp EXCEPT !["srv"] =
                        [NoResp EXCEPT !.status = GetStatus(failed)]]
                 /\ \E body \in bodies :
                        obs' = [op |-> StoreQuery(url.route),
                                days |-> IF url.route = "alerts" THEN 0 ELSE days,
                                limit |-> IF url.route = "top_skills" THEN limit ELSE 0,
                                skill_id |-> IF url.route = "success_rate"
                                                THEN skill_id ELSE None,
                                res |-> body]
            ELSE \* the arm _ : "Not Found", 404
                 /\ ~fault
                 /\ resp' = [resp EXCEPT !["srv"] = [NoResp EXCEPT !.status = "404"]]
                 /\ obs' = obs
    /\ loc' = [loc EXCEPT !["srv"] = NoLoc]
    /\ UNCHANGED <<db, stats, now, events, alerts, lock, txBase, nextUuid, pc>>

-----------------------------------------------------------------------------

Next ==
    \/ Tick
    \/ \E body \in Bodies : PostRejected(body)
    \/ \E body \in Bodies : PostParsed(body)
    \/ \E batch \in Batches : ApiInsertEvents(batch)
    \/ \E t \in Threads : InsertBegin(t)
    \/ \E t \in Threads : InsertRow(t)
    \/ \E t \in Threads : InsertFail(t)
    \/ \E t \in Threads : InsertCommit(t)
    \/ \E sid \in Skills : NextSkill(sid)
    \/ Respond200
    \/ \E sid \in Skills : ApiRunChecks(sid)
    \/ \E t \in Threads : CheckFailureSpike(t)
    \/ \E t \in Threads : InsertFailureAlert(t)
    \/ \E t \in Threads : CheckLatencySpike(t)
    \/ \E t \in Threads : InsertLatencyAlert(t)
    \/ \E id \in Ids(alerts) \cup {0} : AcknowledgeAlert(id)

Spec == Init /\ [][Next]_vars

-----------------------------------------------------------------------------
(* Claims on the ingest path, checked under Spec *)

TxOpen == \E t \in Threads : pc[t] = "tx"

\* The rows of skill_events that a commit has made durable
Committed == IF TxOpen THEN txBase ELSE events

\* C1: the store holds at most one row per event id, a row once committed
\* stays as it was stored, and executing the insert for an id that is
\* already in the table adds no row and changes none.
C1_OneRowPerId ==
    [][/\ Cardinality(Ids(events')) = Cardinality(events')
       /\ Committed \subseteq events'
       /\ \A t \in Threads :
            (InsertRow(t) /\ loc[t].rows[loc[t].i].id \in Ids(events))
                => events' = events]_vars

\* A batch whose every id was stored before has been inserted again: the
\* call succeeded, added nothing, and the row first stored under id 1 is
\* still the one in the table.
C1_Witness ==
    /\ resp["api"].status = "Ok"
    /\ resp["api"].sent = 3
    /\ resp["api"].added = 0
    /\ Row(1, "A", T0, "u1", TRUE, Some(100)) \in events

\* C2: in every state there is at most one alert with resolved_at absent
\* for each (skill_id, alert_type).
C2_OneUnresolvedAlert ==
    \A sid \in Skills : \A ty \in {"failure_spike", "latency_spike"} :
        Cardinality({a \in alerts : /\ a.skill_id = sid
                                    /\ a.alert_type = ty
                                    /\ a.resolved_at = None}) <= 1

\* Two detector runs for skill A have both found the failure spike and both
\* have called insert_alert; the alert they left has been acknowledged.
C2_Witness ==
    /\ \A t \in Threads :
        pc[t] = "ls" /\ loc[t].sid = "A" /\ loc[t].msg # NoMsg
    /\ \E a \in alerts :
        a.skill_id = "A" /\ a.alert_type = "failure_spike" /\ a.acknowledged

InWindow(rows, clock, days) ==
    \A i \in 1..Len(rows) : rows[i].timestamp >= clock - days * DAY

CallsOf(ev, clock, days, sid) ==
    Cardinality({e \in ev : e.skill_id = sid /\ e.timestamp >= clock - days * DAY})

InBatch(rows, sid) == Cardinality({i \in 1..Len(rows) : rows[i].skill_id = sid})

\* C7: when insert_events has stored the rows of a POST of k >= 1 well-formed
\* events that lie in the window (the request is then answered 200),
\* get_overview reports a total_calls larger by exactly k than before the
\* POST, and get_top_skills reports each skill of the batch with a call_count
\* larger by exactly the batch's events of that skill.
C7_RoundTrip ==
    [][InsertCommit("srv") =>
        \A d \in {1, 7} :
            LET rows == loc["srv"].rows
                before == get_overview(txBase, now, d)
                after == get_overview(events', now, d)
            IN  (Len(rows) >= 1 /\ InWindow(rows, now, d)) =>
                /\ after.ok
                /\ after.total_calls =
                    (IF before.ok THEN before.total_calls ELSE 0) + Len(rows)
                /\ \A top \in get_top_skills(events', now, d, 10) :
                    \A sid \in {rows[i].skill_id : i \in 1..Len(rows)} :
                        \E j \in 1..Len(top) :
                            /\ top[j].skill_id = sid
                            /\ top[j].call_count =
                                CallsOf(txBase, now, d, sid) + InBatch(rows, sid)
      ]_vars

\* A POST of two events has been answered 200, both rows stored.
C7_Witness ==
    /\ resp["srv"].status = "200"
    /\ resp["srv"].sent = 2
    /\ resp["srv"].added = 2
    /\ \E e \in events : e.id >= FirstUuid /\ e.skill_id = "B"

\* C9: a successful insert_events returns the length of the batch.
C9_ReturnsBatchLength ==
    \A t \in Threads :
        resp[t].status \in {"Ok", "200"} => resp[t].count = resp[t].sent

\* insert_events returned 3 for a batch that added 2 rows.
C9_Witness ==
    /\ resp["api"].status = "Ok"
    /\ resp["api"].count = 3
    /\ resp["api"].added = 2

RequiredFields == {"skill_id", "timestamp", "user_id", "success"}

\* The body is no ingest request: it cannot be read, is no JSON, or one of
\* its events lacks a required field
Malformed(body) ==
    \/ ~body.read
    \/ ~body.json
    \/ \E i \in 1..Len(body.events) :
        \E f \in RequiredFields : body.events[i][f] = None

\* C10: a POST whose body is no ingest request is answered 400 and rejected
\* as a whole: nothing is stored, no alert check runs, no alert is created.
C10_MalformedRejected ==
    [][\A body \in Bodies :
        ((PostRejected(body) \/ PostParsed(body)) /\ Malformed(body)) =>
            /\ resp'["srv"].status = "400"
            /\ events' = events
            /\ alerts' = alerts
            /\ pc'["srv"] = "idle"
            /\ nextUuid' = nextUuid
      ]_vars

\* A body of one good event and one without success has been answered 400
\* while the table holds no row of skill B.
C10_Witness ==
    /\ resp["srv"].status = "400"
    /\ \A e \in events : e.skill_id # "B"
    /\ events # {}

\* The server is inside run_checks
InRunChecks == pc["srv"] \in {"fs", "alert_f", "ls", "alert_l"}

\* The distinct skill ids of the batch the server is handling
BatchSkills ==
    {loc["srv"].rows[i].skill_id : i \in 1..Len(loc["srv"].rows)}

\* The skills whose run_checks call has returned, in the order of the calls
RanSkills(ran) == {ran[i][1] : i \in 1..Len(ran)}

\* C11: when run_checks fails for a skill of a just-inserted batch, the
\* batch's rows stay stored, the server goes on with the remaining skills,
\* and the request ends only with 200 and the accepted count, after the
\* checks of every skill of the batch have run.
C11_AlertFailureIsolated ==
    [][/\ (InRunChecks /\ loc'["srv"].ran = Append(loc["srv"].ran, <<loc["srv"].sid, "Err">>))
            => /\ events' = events
               /\ pc'["srv"] = "checks"
               /\ loc'["srv"].todo = loc["srv"].todo
               /\ loc'["srv"].count = loc["srv"].count
       /\ (pc["srv"] = "checks" \/ InRunChecks)
            => /\ \A i \in 1..Len(loc["srv"].rows) : loc["srv"].rows[i] \in events'
               /\ pc'["srv"] = "idle"
                    => /\ resp'["srv"].status = "200"
                       /\ resp'["srv"].count = Len(loc["srv"].rows)
                       /\ RanSkills(resp'["srv"].ran) = BatchSkills
      ]_vars

\* A POST of an event of skill A and one of skill B has been answered 200
\* with count 2: run_checks failed for A and then ran for B.
C11_Witness ==
    /\ resp["srv"].status = "200"
    /\ resp["srv"].count = 2
    /\ resp["srv"].ran = <<<<"A", "Err">>, <<"B", "Ok">>>>
    /\ Cardinality(events) = 2

-----------------------------------------------------------------------------
(* The queries on a store at rest: SpecQuery *)

InitQuery ==
    /\ now = T0
    /\ events \in SUBSET QueryRows
    /\ alerts = {}
    /\ stats = {}
    /\ db = Opened
    /\ lock = "none"
    /\ txBase = {}
    /\ nextUuid = FirstUuid
    /\ pc = [t \in Threads |-> "idle"]
    /\ loc = [t \in Threads |-> NoLoc]
    /\ resp = [t \in Threads |-> NoResp]
    /\ obs = NoObs

NextQuery ==
    \/ \E d \in DaysArgs : GetOverview(d)
    \/ \E d \in DaysArgs : \E l \in LimitArgs : GetTopSkills(d, l)

SpecQuery == InitQuery /\ [][NextQuery]_vars

\* The events a query over the trailing `days` days selects
Window(days) == {e \in events : e.timestamp >= now - days * DAY}

\* C6: get_overview(days) succeeds and reports success_rate = S/T when the
\* window holds T > 0 events, S of them successful, and reports total_calls 0
\* and success_rate 1.0 when T = 0.
C6_OverviewSuccessRate ==
    obs.op = "get_overview" =>
        LET T == Cardinality(Window(obs.days))
            S == Cardinality({e \in Window(obs.days) : e.success})
        IN  /\ obs.res.ok
            /\ T > 0 => obs.res.success_rate[1] * T = S * obs.res.success_rate[2]
            /\ T = 0 => /\ obs.res.total_calls = 0
                        /\ obs.res.success_rate[1] = obs.res.success_rate[2]

TopSkillsShape ==
    /\ \A i, j \in 1..Len(obs.res) :
        i # j => obs.res[i].skill_id # obs.res[j].skill_id
    /\ \A i \in 1..Len(obs.res) :
        /\ obs.res[i].call_count =
            Cardinality({e \in Window(obs.days) : e.skill_id = obs.res[i].skill_id})
        /\ obs.res[i].call_count >= 1
    /\ \A i, j \in 1..Len(obs.res) :
        i < j => obs.res[i].call_count >= obs.res[j].call_count

-----------------------------------------------------------------------------
(* The detector on a store at rest: SpecDetect *)

InitDetect ==
    /\ now = T0
    /\ events \in CallStores \cup LatencyStores
    /\ alerts = {}
    /\ stats = {}
    /\ db = Opened
    /\ lock = "none"
    /\ txBase = {}
    /\ nextUuid = FirstUuid
    /\ pc = [t \in Threads |-> "idle"]
    /\ loc = [t \in Threads |-> NoLoc]
    /\ resp = [t \in Threads |-> NoResp]
    /\ obs = NoObs

NextDetect ==
    \/ \E sid \in Skills : ApiRunChecks(sid)
    \/ CheckFailureSpike("api")
    \/ InsertFailureAlert("api")
    \/ CheckLatencySpike("api")
    \/ InsertLatencyAlert("api")

SpecDetect == InitDetect /\ [][NextDetect]_vars

\* The events of the skill under check with timestamp from `from` on
CallsFrom(from) ==
    {e \in events : e.skill_id = loc["api"].sid /\ e.timestamp >= from}

Unresolved(sid, alert_type) ==
    {a \in alerts : a.skill_id = sid /\ a.alert_type = alert_type
                    /\ a.resolved_at = None}

\* The step writes one alert of the type and severity for the skill under
\* check unless an unresolved one exists, and then writes nothing
WritesAlert(alert_type, severity) ==
    IF Unresolved(loc["api"].sid, alert_type) # {}
        THEN alerts' = alerts
        ELSE /\ alerts \subseteq alerts'
             /\ Cardinality(alerts' \ alerts) = 1
             /\ \A a \in alerts' \ alerts :
                    /\ a.skill_id = loc["api"].sid
                    /\ a.alert_type = alert_type
                    /\ a.severity = severity
                    /\ a.resolved_at = None

\* C4: check_failure_spike reports a spike exactly when the skill's events of
\* the trailing hour number more than 20 and the failed ones exceed 10% of
\* them (21 calls with 3 failures: yes; 20 calls with 3 failures: no); events
\* of other skills and older events do not count; run_checks then writes a
\* failure_spike / critical alert unless an unresolved one exists, and no
\* other step writes one.
C4_FailureSpike ==
    [][LET calls == CallsFrom(now - 3600)
           failed == {e \in calls : ~e.success}
           T == Cardinality(calls)
           F == Cardinality(failed)
           reported == pc'["api"] = "alert_f"
       IN  /\ CheckFailureSpike("api") =>
                /\ reported <=> (T > 20 /\ 10 * F > T)
                /\ (T = 21 /\ F = 3) => reported
                /\ (T = 20 /\ F = 3) => ~reported
           /\ InsertFailureAlert("api") => WritesAlert("failure_spike", "critical")
           /\ (\E a \in alerts' \ alerts : a.alert_type = "failure_spike")
                => pc["api"] = "alert_f"
      ]_vars

\* run_checks on 21 calls of the hour with 3 failures, beside older failures
\* of the skill and failures of another skill, wrote a failure_spike alert
\* that reports 3 of 21.
C4_Witness ==
    /\ events = CallStore(21, 3, TRUE, TRUE)
    /\ \E a \in alerts : /\ a.alert_type = "failure_spike"
                         /\ a.severity = "critical"
                         /\ a.skill_id = "A"
                         /\ a.message = <<"failure", 3, 21>>

\* C5: check_latency_spike reports a spike exactly when the skill has a p95
\* over the trailing hour and a p95 over the hour 24 hours earlier, the
\* earlier one is > 0 and the current one is > 3 times the earlier one; with
\* no event with a duration in the earlier hour nothing is reported; a
\* reported spike is written as a latency_spike / warning alert.
C5_LatencySpike ==
    [][LET sid == loc["api"].sid
           earlier == {e \in events : /\ e.skill_id = sid
                                      /\ e.timestamp >= now - 3600 - 86400
                                      /\ e.timestamp < now - 86400
                                      /\ e.duration_ms # None}
           cur == P95(CallsFrom(now - 3600))
           prev == P95(earlier)
           reported == pc'["api"] = "alert_l"
       IN  /\ CheckLatencySpike("api") =>
                /\ reported <=> /\ cur # None
                                /\ prev # None
                                /\ \A c \in cur : \A p \in prev : p > 0 /\ c > 3 * p
                /\ earlier = {} => ~reported
           /\ InsertLatencyAlert("api") => WritesAlert("latency_spike", "warning")
           /\ (\E a \in alerts' \ alerts : a.alert_type = "latency_spike")
                => pc["api"] = "alert_l"
      ]_vars

\* run_checks wrote a latency_spike alert for a p95 of 301 ms against 100 ms
\* in the hour one day earlier.
C5_Witness ==
    \E a \in alerts : /\ a.alert_type = "latency_spike"
                      /\ a.severity = "warning"
                      /\ a.message = <<"latency", 100, 301>>

-----------------------------------------------------------------------------
(* Writers and readers together: SpecTx *)

InitTx == Init

NextTx ==
    \/ \E body \in Bodies : PostRejected(body)
    \/ \E body \in Bodies : PostParsed(body)
    \/ \E batch \in Batches : ApiInsertEvents(batch)
    \/ \E t \in Threads : InsertBegin(t)
    \/ \E t \in Threads : InsertRow(t)
    \/ \E t \in Threads : InsertFail(t)
    \/ \E t \in Threads : InsertCommit(t)
    \/ \E sid \in Skills : NextSkill(sid)
    \/ Respond200
    \/ CheckFailureSpike("srv")
    \/ InsertFailureAlert("srv")
    \/ CheckLatencySpike("srv")
    \/ InsertLatencyAlert("srv")
    \/ \E d \in DaysArgs : GetOverview(d)
    \/ \E d \in DaysArgs : \E l \in LimitArgs : GetTopSkills(d, l)

SpecTx == InitTx /\ [][NextTx]_vars

\* The ids thread t's open transaction adds to the store
NewIds(t) == {loc[t].rows[i].id : i \in 1..Len(loc[t].rows)} \ Ids(txBase)

\* The store holds some but not all of the rows an open transaction adds
PartlyStored ==
    \E t \in Threads :
        /\ pc[t] = "tx"
        /\ Ids(events) \cap NewIds(t) # {}
        /\ Ids(events) \cap NewIds(t) # NewIds(t)

\* C3: no query runs on a store that holds some but not all of the new rows
\* of a batch, and when insert_events fails none of the batch's new rows is
\* stored and no other row is touched.
C3_BatchAtomic ==
    [][/\ obs' # obs => ~PartlyStored
       /\ \A t \in Threads :
            InsertFail(t) => /\ Ids(events') \cap NewIds(t) = {}
                             /\ events' = txBase
      ]_vars

\* A query saw both rows the in-process batch added, and now the server's
\* insert_events has stored the first of its two rows.
C3_Witness ==
    /\ obs.op = "get_overview"
    /\ obs.res.ok
    /\ obs.res.total_calls = 2
    /\ resp["api"].status = "Ok"
    /\ resp["api"].added = 2
    /\ PartlyStored

-----------------------------------------------------------------------------
(* The HTTP server alone: SpecHttp *)

InitHttp == Init

NextHttp ==
    \/ Tick
    \/ \E url \in GetUrls : \E fault \in BOOLEAN : HttpGet(url, fault)
    \/ \E body \in Bodies : PostRejected(body)
    \/ \E body \in Bodies : PostParsed(body)
    \/ InsertBegin("srv")
    \/ InsertRow("srv")
    \/ InsertFail("srv")
    \/ InsertCommit("srv")
    \/ \E sid \in Skills : NextSkill(sid)
    \/ Respond200
    \/ CheckFailureSpike("srv")
    \/ InsertFailureAlert("srv")
    \/ CheckLatencySpike("srv")
    \/ InsertLatencyAlert("srv")

SpecHttp == InitHttp /\ [][NextHttp]_vars

\* The value a request gives for a parameter, if it gives one
Given(url, key) == IF url.query = None THEN None ELSE The(url.query)[key]

\* C13: a GET of one of the eight routes is answered 200 with the result of
\* the route's store query, called with the days, limit and skill_id of the
\* query string, and with days 7 (overview, top_skills) or 30 (the others)
\* and limit 10 where the request gives none.
C13_GetRoutes ==
    [][\A url \in GetUrls :
        (HttpGet(url, FALSE) /\ url.route \in Routes) =>
            LET days == IF Given(url, "days") # None THEN The(Given(url, "days"))
                        ELSE IF url.route \in {"overview", "top_skills"}
                            THEN 7 ELSE 30
                limit == IF Given(url, "limit") # None
                            THEN The(Given(url, "limit")) ELSE 10
            IN  /\ resp'["srv"].status = "200"
                /\ obs'.op = CASE url.route = "overview" -> "get_overview"
                               [] url.route = "top_skills" -> "get_top_skills"
                               [] url.route = "daily_trend" -> "get_daily_trend"
                               [] url.route = "success_rate" -> "get_success_rate_trend"
                               [] url.route = "cost_summary" -> "get_cost_summary"
                               [] url.route = "caller_analysis" -> "get_caller_analysis"
                               [] url.route = "user_retention" -> "get_user_retention"
                               [] url.route = "alerts" -> "get_active_alerts"
                /\ url.route # "alerts" => obs'.days = days
                /\ url.route = "top_skills" => obs'.limit = limit
                /\ url.route = "success_rate" => obs'.skill_id = Given(url, "skill_id")
                /\ url.route = "top_skills" =>
                        obs'.res \in get_top_skills(events, now, days, limit)
                /\ url.route = "alerts" => obs'.res \in get_active_alerts(alerts)
      ]_vars

\* The store query behind a GET returns an error
QueryFails(url, fault) ==
    \/ fault
    \/ /\ url.route = "overview"
       /\ ~get_overview(events, now,
                        IF Given(url, "days") # None
                            THEN The(Given(url, "days")) ELSE 7).ok

\* C14: when the store returns an error while an HTTP request is served,
\* insert_events during a POST or the query behind a GET of one of the
\* routes, the response has status 500, never 200.
C14_StorageError500 ==
    [][/\ InsertFail("srv") => resp'["srv"].status = "500"
       /\ \A url \in GetUrls : \A fault \in BOOLEAN :
            (HttpGet(url, fault) /\ resp'["srv"].status # "404"
                /\ QueryFails(url, fault))
                => resp'["srv"].status = "500"
      ]_vars

\* C15: while one request is in progress another request can be handled and
\* answered.
C15_OwnWorker ==
    pc["srv"] # "idle" => ENABLED (\E url \in GetUrls : HttpGet(url, FALSE))

-----------------------------------------------------------------------------
(* Every operation of the store from inside the process: SpecDaily *)

InitDaily ==
    /\ now = T0
    /\ db = Opened
    /\ \/ events = {} /\ stats = {}
       \/ events = Stored /\ stats \in {{}, StaleStats}
    /\ alerts = {}
    /\ lock = "none"
    /\ txBase = {}
    /\ nextUuid = FirstUuid
    /\ pc = [t \in Threads |-> "idle"]
    /\ loc = [t \in Threads |-> NoLoc]
    /\ resp = [t \in Threads |-> NoResp]
    /\ obs = NoObs

NextDaily ==
    \/ \E batch \in Batches \cup {SlowBatch} : ApiInsertEvents(batch)
    \/ InsertBegin("api")
    \/ InsertRow("api")
    \/ InsertFail("api")
    \/ InsertCommit("api")
    \/ \E sid \in Skills : ApiRunChecks(sid)
    \/ CheckFailureSpike("api")
    \/ InsertFailureAlert("api")
    \/ CheckLatencySpike("api")
    \/ InsertLatencyAlert("api")
    \/ \E id \in Ids(alerts) : AcknowledgeAlert(id)
    \/ \E date \in DateArgs : AggregateDailyStats(date)
    \/ \E d \in DaysArgs : GetOverview(d)
    \/ \E d \in DaysArgs : GetTopSkills(d, DEFAULT_LIMIT)

SpecDaily == InitDaily /\ [][NextDaily]_vars

\* The events of a calendar date (UTC)
EventsOn(date) ==
    {e \in events : e.timestamp >= date * 86400 /\ e.timestamp < (date + 1) * 86400}

\* C16: a run of aggregate_daily_stats for a date that follows a run for the
\* same date with no insert in between (the table is as a run on the stored
\* events leaves it) changes nothing, and after every run a second run for
\* the date would change nothing.
C16_AggregateIdempotent ==
    [][\A date \in DateArgs :
        AggregateDailyStats(date) =>
            /\ aggregate_daily_stats(stats', events', date) = stats'
            /\ (\A sid \in {e.skill_id : e \in EventsOn(date)} :
                    \E r \in stats :
                        /\ r.skill_id = sid /\ r.date = date
                        /\ r.total_calls =
                            Cardinality({e \in EventsOn(date) : e.skill_id = sid})
                        /\ r.success_count =
                            Cardinality({e \in EventsOn(date) : e.skill_id = sid /\ e.success})
                        /\ r.unique_users =
                            Cardinality({e.user_id : e \in {x \in EventsOn(date) : x.skill_id = sid}}))
                => stats' = stats
      ]_vars

\* Today has been aggregated after the 21st call of skill A was stored, and
\* aggregating today again would leave the table as it is.
C16_Witness ==
    /\ Cardinality(EventsOn(DateOf(T0))) = 21
    /\ \E r \in stats : r.date = DateOf(T0) /\ r.skill_id = "A" /\ r.total_calls = 21
    /\ aggregate_daily_stats(stats, events, DateOf(T0)) = stats

\* C17: aggregate_daily_stats(date) leaves exactly one row (skill, date) for
\* each skill with an event on that date, with total_calls the number of the
\* skill's events of the day, success_count + fail_count = total_calls and
\* unique_users the number of distinct users, in place of any earlier row of
\* the key; every other row, the events and the alerts stay as they were.
C17_AggregateFrame ==
    [][\A date \in DateArgs :
        AggregateDailyStats(date) =>
            /\ \A sid \in {e.skill_id : e \in EventsOn(date)} :
                LET mine == {e \in EventsOn(date) : e.skill_id = sid}
                    rows == {r \in stats' : r.skill_id = sid /\ r.date = date}
                IN  /\ Cardinality(rows) = 1
                    /\ \A r \in rows :
                        /\ r.total_calls = Cardinality(mine)
                        /\ r.success_count + r.fail_count = r.total_calls
                        /\ r.success_count = Cardinality({e \in mine : e.success})
                        /\ r.unique_users = Cardinality({e.user_id : e \in mine})
            /\ \A r \in stats \cup stats' :
                (r.date # date \/ r.skill_id \notin {e.skill_id : e \in EventsOn(date)})
                    => (r \in stats /\ r \in stats')
            /\ events' = events
            /\ alerts' = alerts
      ]_vars

\* The table holds today's row of skill A with 20 calls, 17 of them
\* successful, where it held a row with 5 calls, beside the untouched row of
\* the day before.
C17_Witness ==
    /\ events = Stored
    /\ \E r \in stats : /\ r.date = DateOf(T0) /\ r.skill_id = "A"
                        /\ r.total_calls = 20 /\ r.success_count = 17
                        /\ r.fail_count = 3
    /\ \E r \in stats : r.date = DateOf(T0) - 1 /\ r \in StaleStats
    /\ Cardinality(stats) = 2

\* C18: the committed events only grow and no committed event is deleted or
\* changed, whatever step is taken.
C18_EventsImmutable ==
    [][/\ Committed \subseteq Committed'
       /\ \A e \in Committed : \A f \in events' : f.id = e.id => f = e
       /\ (~TxOpen /\ ~TxOpen') => events \subseteq events'
      ]_vars

\* After inserts, detector runs with both alerts written and acknowledged,
\* and an aggregation, every row the store was opened with is still stored
\* beside the new ones.
C18_Witness ==
    /\ Stored \subseteq events
    /\ Cardinality(events) > Cardinality(Stored) + 1
    /\ stats # {}
    /\ \E a \in alerts : a.alert_type = "failure_spike" /\ a.acknowledged
    /\ \E a \in alerts : a.alert_type = "latency_spike"
    /\ obs.op = "get_overview"

-----------------------------------------------------------------------------
(* A sender that repeats its events: SpecResend *)

InitResend ==
    /\ now = T0
    /\ events = {}
    /\ alerts = {}
    /\ stats = {}
    /\ db = Opened
    /\ lock = "none"
    /\ txBase = {}
    /\ nextUuid = FirstUuid
    /\ pc = [t \in Threads |-> "idle"]
    /\ loc = [t \in Threads |-> NoLoc]
    /\ resp = [t \in Threads |-> NoResp]
    /\ obs = NoObs

NextResend ==
    \/ \E body \in ResendBodies : PostParsed(body)
    \/ InsertBegin("srv")
    \/ InsertRow("srv")
    \/ InsertFail("srv")
    \/ InsertCommit("srv")
    \/ \E sid \in Skills : NextSkill(sid)
    \/ CheckFailureSpike("srv")
    \/ CheckLatencySpike("srv")
    \/ Respond200
    \/ GetOverview(1)

SpecResend == InitResend /\ [][NextResend]_vars

\* The stored rows that hold the event sent under id k
RowsOf(k) ==
    {e \in Committed :
        \E uuid \in Ids(Committed) : e = to_row(SentEvent(k), uuid, now)}

\* C19: an event sent to POST /v1/events under an id, however often and in
\* however many requests, is stored as one row, and get_overview counts one
\* call per id that was sent.
C19_IdIsIdempotencyKey ==
    /\ \A k \in CallerIds : Cardinality(RowsOf(k)) <= 1
    /\ (obs.op = "get_overview" /\ obs.res.ok) =>
            obs.res.total_calls <= Cardinality({k \in CallerIds : RowsOf(k) # {}})

-----------------------------------------------------------------------------
(* Percentiles on stores of known sizes: SpecP95 *)

InitP95 ==
    /\ now = T0
    /\ events \in SampleStores
    /\ alerts = {}
    /\ stats = {}
    /\ db = Opened
    /\ lock = "none"
    /\ txBase = {}
    /\ nextUuid = FirstUuid
    /\ pc = [t \in Threads |-> "idle"]
    /\ loc = [t \in Threads |-> NoLoc]
    /\ resp = [t \in Threads |-> NoResp]
    /\ obs = NoObs

NextP95 ==
    \/ GetOverview(1)
    \/ \E sid \in Skills : ApiRunChecks(sid)
    \/ CheckFailureSpike("api")
    \/ InsertFailureAlert("api")
    \/ CheckLatencySpike("api")
    \/ InsertLatencyAlert("api")

SpecP95 == InitP95 /\ [][NextP95]_vars

\* The durations of a set of rows in ascending order, the rows without one
\* left out
RECURSIVE Ascending(_)
Ascending(sel) ==
    LET D == WithDuration(sel) IN
    IF D = {} THEN <<>>
    ELSE LET lo == CHOOSE e \in D :
                        \A f \in D : The(e.duration_ms) <= The(f.duration_ms)
         IN  <<The(lo.duration_ms)>> \o Ascending(D \ {lo})

\* The nearest-rank 95th percentile: the element at 0-indexed offset
\* floor(N * 0.95) of the N durations in ascending order, absent when N = 0
NearestRank(sel) ==
    LET sorted == Ascending(sel)
        N == Len(sorted)
    IN  IF N = 0 THEN None ELSE Some(sorted[(N * 95) \div 100 + 1])

\* C20: every p95 latency reported is the nearest-rank value of its window
\* and is absent exactly when the window has no duration: get_overview's
\* p95_latency_ms and the difference to the previous window's p95, and the
\* two p95s check_latency_spike compares and puts into its message.
C20_NearestRank ==
    [][/\ GetOverview(1) =>
            LET cur == NearestRank({e \in events : e.timestamp >= now - 86400})
                prv == NearestRank({e \in events :
                            /\ e.timestamp >= now - 2 * 86400
                            /\ e.timestamp < now - 86400})
            IN  obs'.res.ok =>
                    /\ obs'.res.p95_latency_ms = cur
                    /\ obs'.res.p95_latency_delta_ms =
                        IF cur # None /\ prv # None
                            THEN Some(The(cur) - The(prv)) ELSE None
       /\ \A t \in Threads : CheckLatencySpike(t) =>
            LET mine == {e \in events : e.skill_id = loc[t].sid}
                cur == NearestRank({e \in mine : e.timestamp >= now - 3600})
                prv == NearestRank({e \in mine :
                            /\ e.timestamp >= now - 3600 - 86400
                            /\ e.timestamp < now - 86400})
                spike == /\ cur # None /\ prv # None
                         /\ The(prv) > 0 /\ The(cur) > The(prv) * 3
            IN  /\ spike <=> pc'[t] = "alert_l"
                /\ spike => loc'[t].msg = <<"latency", The(prv), The(cur)>>
      ]_vars

\* With MaxSamples durations 10, 20, ... in the trailing hour and two a day
\* earlier, get_overview has reported the second largest of them and the
\* alert carries the same value beside the larger of the two earlier ones.
C20_Witness ==
    /\ Cardinality(WithDuration(Since(events, T0 - HOUR))) = MaxSamples
    /\ Cardinality({The(e.duration_ms) : e \in WithDuration(Since(events, T0 - HOUR))})
            = MaxSamples
    /\ obs.op = "get_overview" /\ obs.res.ok
    /\ obs.res.p95_latency_ms = Some(10 * (MaxSamples - 1))
    /\ \E a \in alerts :
            /\ a.alert_type = "latency_spike"
            /\ a.message = <<"latency", 20, 10 * (MaxSamples - 1)>>

-----------------------------------------------------------------------------
(* get_overview: the comparison with the preceding window, under SpecQuery *)

\* The events of the window of `days` days that ends where the trailing
\* window starts
Preceding(days) ==
    {e \in events : /\ e.timestamp >= now - 2 * days * 86400
                    /\ e.timestamp < now - days * 86400}

\* C21: the result of get_overview(days) compares its counts with those of
\* the window [now - 2*days*86400, now - days*86400) and counts no event of
\* that window as current: total_calls_delta_pct is absent exactly when that
\* window has no call and is 100 * (current - previous) / previous otherwise,
\* success_rate_delta is the current rate minus the previous rate (1 when the
\* window is empty), active_users_delta is the difference of the numbers of
\* distinct users.
C21_OverviewDeltas ==
    (obs.op = "get_overview" /\ obs.res.ok) =>
        LET prv == Preceding(obs.days)
            P == Cardinality(prv)
            rateNum == IF P > 0 THEN Cardinality({e \in prv : e.success}) ELSE 1
            rateDen == IF P > 0 THEN P ELSE 1
            r == obs.res
        IN  /\ r.total_calls <= Cardinality(events \ prv)
            /\ (r.total_calls_delta_pct = None) <=> (P = 0)
            /\ P > 0 =>
                The(r.total_calls_delta_pct)[1] * P =
                    100 * (r.total_calls - P) * The(r.total_calls_delta_pct)[2]
            /\ r.success_rate_delta # None
            /\ The(r.success_rate_delta)[1] * (r.success_rate[2] * rateDen) =
                    (r.success_rate[1] * rateDen - rateNum * r.success_rate[2])
                        * The(r.success_rate_delta)[2]
            /\ r.active_users_delta =
                    Some(r.active_users - Cardinality({e.user_id : e \in prv}))

\* get_overview(1) has answered on a store with a call exactly one day old
\* and a call one second older: the first is current, the second previous.
\* Two current calls by two users, one failed, stand against one successful
\* previous call: +100 percent in calls, +1 in users, a lower success rate.
C21_Witness ==
    /\ obs.op = "get_overview" /\ obs.days = 1 /\ obs.res.ok
    /\ events = {e \in QueryRows : e.id \in {1, 2, 3}}
    /\ obs.res.total_calls = 2
    /\ obs.res.total_calls_delta_pct = Some(<<100, 1>>)
    /\ obs.res.active_users_delta = Some(1)
    /\ The(obs.res.success_rate_delta)[1] < 0

\* The events of the trailing window [now - days*86400, now)
Trailing(days) ==
    {e \in events : /\ e.timestamp >= now - days * 86400
                    /\ e.timestamp < now}

\* C22: get_overview and get_top_skills count exactly the events with
\* now - days*86400 <= timestamp < now: total_calls is their number, and
\* every entry of get_top_skills has as call_count the number of them of its
\* skill.
C22_TrailingWindow ==
    /\ (obs.op = "get_overview" /\ obs.res.ok) =>
            obs.res.total_calls = Cardinality(Trailing(obs.days))
    /\ obs.op = "get_top_skills" =>
            \A i \in 1..Len(obs.res) :
                obs.res[i].call_count =
                    Cardinality({e \in Trailing(obs.days) :
                                    e.skill_id = obs.res[i].skill_id})

-----------------------------------------------------------------------------
(* The trend read from the daily stats: SpecTrend *)

SkillArgs == {None, Some("A"), Some("B")}

InitTrend ==
    /\ now = T0
    /\ events \in SUBSET QueryRows
    /\ alerts = {}
    /\ stats = {}
    /\ db = Opened
    /\ lock = "none"
    /\ txBase = {}
    /\ nextUuid = FirstUuid
    /\ pc = [t \in Threads |-> "idle"]
    /\ loc = [t \in Threads |-> NoLoc]
    /\ resp = [t \in Threads |-> NoResp]
    /\ obs = NoObs

NextTrend ==
    \/ \E date \in DateArgs : AggregateDailyStats(date)
    \/ \E skill_id \in SkillArgs : \E d \in DaysArgs :
            GetSuccessRateTrend(skill_id, d)

SpecTrend == InitTrend /\ [][NextTrend]_vars

\* The element at 0-indexed offset floor(N * pct / 100) of the N durations
\* in ascending order
Percentile(sel, pct) ==
    LET sorted == Ascending(sel)
    IN  IF sorted = <<>> THEN None
        ELSE Some(sorted[(Len(sorted) * pct) \div 100 + 1])

\* The date has been aggregated since the last event of the date was stored
Aggregated(date) == aggregate_daily_stats(stats, events, date) = stats

\* C23: after aggregate_daily_stats has run for a date of the trend's span,
\* get_success_rate_trend(Some(skill), days) has a row of the skill for the
\* date whose p50_ms, p95_ms and p99_ms are the skill's percentiles of the
\* day whenever the skill has an event with a duration that day; and
\* get_success_rate_trend(None, days) has one row per date with the sums
\* over the skills and without percentiles.
C23_TrendPercentiles ==
    [][\A skill_id \in SkillArgs : \A d \in DaysArgs :
        GetSuccessRateTrend(skill_id, d) =>
            LET res == obs'.res
                span == {r \in stats : r.date >= DateOf(now - d * 86400)}
            IN  /\ skill_id # None =>
                    \A date \in DateArgs :
                        LET day == {e \in EventsOn(date) :
                                        e.skill_id = The(skill_id)}
                        IN  (/\ Aggregated(date)
                             /\ date >= DateOf(now - d * 86400)
                             /\ WithDuration(day) # {}) =>
                                \E i \in 1..Len(res) :
                                    /\ res[i].date = date
                                    /\ res[i].skill_id = The(skill_id)
                                    /\ res[i].p50_ms = Percentile(day, 50)
                                    /\ res[i].p95_ms = Percentile(day, 95)
                                    /\ res[i].p99_ms = Percentile(day, 99)
                /\ skill_id = None =>
                    /\ {res[i].date : i \in 1..Len(res)} = {r.date : r \in span}
                    /\ Len(res) = Cardinality({r.date : r \in span})
                    /\ \A i \in 1..Len(res) :
                        LET g == {r \in span : r.date = res[i].date}
                        IN  /\ res[i].total_calls = SumColumn(g, "total_calls")
                            /\ res[i].success_count = SumColumn(g, "success_count")
                            /\ res[i].fail_count = SumColumn(g, "fail_count")
                            /\ res[i].unique_users = SumColumn(g, "unique_users")
                            /\ res[i].p50_ms = None
                            /\ res[i].p95_ms = None
                            /\ res[i].p99_ms = None
      ]_vars

-----------------------------------------------------------------------------
(* Opening the stores on databases of every schema version: SpecSchema *)

MaxVersion == 7
ScanPathsArgs == {{}, {"scan_paths"}}

InitSchema ==
    /\ now = T0
    /\ events \in {{}, Stored}
    /\ alerts = {}
    /\ stats = {}
    /\ \E v \in 0..MaxVersion : \E sp \in ScanPathsArgs :
        db = [user_version |-> v,
              objects |-> ObjectsAt(v) \cup (IF v = 0 THEN {} ELSE sp),
              ran |-> <<>>, phase |-> "start"]
    /\ lock = "none"
    /\ txBase = {}
    /\ nextUuid = FirstUuid
    /\ pc = [t \in Threads |-> "idle"]
    /\ loc = [t \in Threads |-> NoLoc]
    /\ resp = [t \in Threads |-> NoResp]
    /\ obs = NoObs

NextSchema ==
    \/ EnsureSchema
    \/ \E fault \in BOOLEAN : OpenAnalytics(fault)
    \/ Restart
    \/ Serving /\ \E d \in DaysArgs : GetOverview(d)
    \/ Serving /\ \E date \in DateArgs : AggregateDailyStats(date)

SpecSchema == InitSchema /\ [][NextSchema]_vars

\* C24: a call of ensure_schema on a database of version v, 0 <= v <=
\* SCHEMA_VERSION, returns Ok having run the migrations v+1, v+2, ... in
\* order and leaves the stored version at SCHEMA_VERSION.
C24_MigratesToCurrent ==
    [][(EnsureSchema /\ db.user_version >= 0 /\ db.user_version <= SCHEMA_VERSION) =>
            /\ db'.phase = "migrated"
            /\ db'.user_version = SCHEMA_VERSION
            /\ db'.ran = [i \in 1..(SCHEMA_VERSION - db.user_version) |->
                                db.user_version + i]
      ]_vars

\* C25: on a database whose version is above SCHEMA_VERSION ensure_schema
\* fails and leaves the version and the tables as they were, and after the
\* failure no query is answered and no table of the analytics store changes.
C25_NewerSchemaRefused ==
    [][/\ (EnsureSchema /\ db.user_version > SCHEMA_VERSION) =>
            /\ db'.phase = "failed"
            /\ db'.user_version = db.user_version
            /\ db'.objects = db.objects
       /\ db.phase = "failed" =>
            /\ events' = events /\ alerts' = alerts /\ stats' = stats
            /\ obs' = obs
      ]_vars

\* The application was started on a database of a newer version that holds
\* a table it does not know: the setup has failed, the database and the
\* stored events are as they were and no query was answered.
C25_Witness ==
    /\ db.user_version = SCHEMA_VERSION + 1
    /\ "newer" \in db.objects
    /\ db.phase = "failed"
    /\ events = Stored
    /\ obs = NoObs

-----------------------------------------------------------------------------
(* Alerts over the life of a store *)

\* C26: acknowledge_alert(id) sets acknowledged on the alert with that id and
\* changes nothing else: the alert keeps every other field, its resolved_at
\* stays absent, so it is still among the active alerts and still blocks a
\* duplicate; other alerts, events and daily stats are unchanged; a second
\* call, or a call with an id of no alert, changes nothing.
C26_AcknowledgeFrame ==
    [][/\ \A id \in Ids(alerts) \cup {0} :
            AcknowledgeAlert(id) =>
                /\ Ids(alerts') = Ids(alerts)
                /\ \A a \in alerts :
                    IF a.id = id
                        THEN \E b \in alerts' :
                                /\ b = [a EXCEPT !.acknowledged = TRUE]
                                /\ b.resolved_at = None
                                /\ \A p \in get_active_alerts(alerts') :
                                        \E i \in 1..Len(p) : p[i] = b
                                /\ insert_alert(alerts', b.skill_id, b.alert_type,
                                                b.severity, b.message, now, 0) = alerts'
                        ELSE a \in alerts'
                /\ events' = events
                /\ stats' = stats
       /\ \A id \in Ids(alerts') \cup {0} :
            /\ acknowledge_alert(acknowledge_alert(alerts', id), id)
                    = acknowledge_alert(alerts', id)
            /\ id \notin Ids(alerts') => acknowledge_alert(alerts', id) = alerts'
      ]_vars

\* Of the two alerts of skill A the failure alert has been acknowledged and
\* the latency alert has not; both are unresolved, and the daily stats and
\* the events written before are in place.
C26_Witness ==
    /\ \E a \in alerts : /\ a.alert_type = "failure_spike"
                         /\ a.acknowledged /\ a.resolved_at = None
    /\ \E a \in alerts : /\ a.alert_type = "latency_spike"
                         /\ ~a.acknowledged /\ a.resolved_at = None
    /\ stats # {}
    /\ Stored \subseteq events

\* The alerts of a skill and type
AlertsOf(al, sid, alert_type) ==
    {a \in al : a.skill_id = sid /\ a.alert_type = alert_type}

\* C27: no step sets resolved_at or removes an alert, so every alert is
\* unresolved and active for ever, and each (skill_id, alert_type) has at
\* most one alert over the life of the store: an insert_alert that finds an
\* alert of its skill and type, acknowledged or not, adds none.
C27_OneAlertForLife ==
    [][/\ \A a \in alerts' : a.resolved_at = None
       /\ Ids(alerts) \subseteq Ids(alerts')
       /\ \A p \in get_active_alerts(alerts') :
            {p[i] : i \in 1..Len(p)} = alerts'
       /\ \A sid \in Skills : \A ty \in {"failure_spike", "latency_spike"} :
            Cardinality(AlertsOf(alerts', sid, ty)) <= 1
       /\ \A t \in Threads :
            /\ (InsertFailureAlert(t)
                    /\ AlertsOf(alerts, loc[t].sid, "failure_spike") # {})
                => alerts' = alerts
            /\ (InsertLatencyAlert(t)
                    /\ AlertsOf(alerts, loc[t].sid, "latency_spike") # {})
                => alerts' = alerts
      ]_vars

\* An hour after the failure alert of skill A was created and after it was
\* acknowledged, a detector run has found the spike, has called insert_alert
\* and has left the one alert.
C27_Witness ==
    /\ Cardinality(alerts) = 1
    /\ \E a \in alerts :
        /\ a.skill_id = "A" /\ a.alert_type = "failure_spike"
        /\ a.acknowledged
        /\ a.detected_at < now
    /\ pc["api"] = "ls" /\ loc["api"].sid = "A"
    /\ Len(loc["api"].out) = 1

-----------------------------------------------------------------------------
(* Two threads on one connection, scheduled fairly: SpecLive *)

LiveBodies == {Body3(TRUE, TRUE, <<WirePrev, WireB>>)}
LiveBatches == {SlowBatch}

InitLive ==
    /\ now = T0
    /\ events = Stored
    /\ alerts = {}
    /\ stats = {}
    /\ db = Opened
    /\ lock = "none"
    /\ txBase = {}
    /\ nextUuid = FirstUuid
    /\ pc = [t \in Threads |-> "idle"]
    /\ loc = [t \in Threads |-> NoLoc]
    /\ resp = [t \in Threads |-> NoResp]
    /\ obs = NoObs

\* The steps a thread takes inside an operation that does not fail
Step(t) ==
    \/ InsertBegin(t)
    \/ InsertRow(t)
    \/ InsertCommit(t)
    \/ CheckFailureSpike(t)
    \/ InsertFailureAlert(t)
    \/ CheckLatencySpike(t)
    \/ InsertLatencyAlert(t)
    \/ t = "srv" /\ \E sid \in Skills : NextSkill(sid)
    \/ t = "srv" /\ Respond200

NextLive ==
    \/ \E body \in LiveBodies : PostParsed(body)
    \/ \E batch \in LiveBatches : ApiInsertEvents(batch)
    \/ \E sid \in Skills : ApiRunChecks(sid)
    \/ \E t \in Threads : Step(t)
    \/ \E t \in Threads : InsertFail(t)
    \/ \E id \in Ids(alerts) : AcknowledgeAlert(id)
    \/ GetOverview(1)

\* A thread that is inside an operation takes its next step at some time,
\* also when that step is possible only while the other thread is outside
\* the mutex
SpecLive ==
    InitLive /\ [][NextLive]_vars /\ \A t \in Threads : SF_vars(Step(t))

\* C28: the mutex is held only by a thread inside insert_events, which needs
\* no second lock() to go on, so a thread inside an operation never waits for
\* itself; in every state with a thread inside an operation some thread can
\* take a step; and every operation a thread has started returns.
C28_NoDeadlock ==
    /\ [](\A t \in Threads : lock = t => pc[t] = "tx")
    /\ []((\E t \in Threads : pc[t] # "idle") => ENABLED (\E t \in Threads : Step(t)))
    /\ \A t \in Threads : (pc[t] # "idle") ~> (pc[t] = "idle")

\* The server is inside the transaction of insert_events and holds the
\* mutex while the other thread is in run_checks, between check_failure_spike
\* and insert_alert, with the spike found.
C28_Witness ==
    /\ lock = "srv" /\ pc["srv"] = "tx"
    /\ pc["api"] = "alert_f"
    /\ loc["api"].msg # NoMsg

-----------------------------------------------------------------------------
(* The server beside the in-process callers of the store: SpecAlerts *)

InitAlerts == Init

\* Requests: a body that cannot be read, an event of skill A, an event of
\* skill B
AlertBodies ==
    {Body3(FALSE, FALSE, <<>>),
     Body3(TRUE, TRUE, <<WirePrev>>),
     Body3(TRUE, TRUE, <<WireB>>)}

\* run_checks has one caller, the loop of the server over the skills of a
\* batch it has inserted; the other thread inserts, aggregates, acknowledges
\* and queries
NextAlerts ==
    \/ \E body \in AlertBodies : PostRejected(body)
    \/ \E body \in AlertBodies : PostParsed(body)
    \/ ApiInsertEvents(SlowBatch)
    \/ \E t \in Threads : InsertBegin(t)
    \/ \E t \in Threads : InsertRow(t)
    \/ \E t \in Threads : InsertFail(t)
    \/ \E t \in Threads : InsertCommit(t)
    \/ \E sid \in Skills : NextSkill(sid)
    \/ Respond200
    \/ CheckFailureSpike("srv")
    \/ InsertFailureAlert("srv")
    \/ CheckLatencySpike("srv")
    \/ InsertLatencyAlert("srv")
    \/ \E id \in Ids(alerts) : AcknowledgeAlert(id)
    \/ AggregateDailyStats(DateOf(T0))
    \/ GetOverview(1)

SpecAlerts == InitAlerts /\ [][NextAlerts]_vars

\* The alerts a step adds
NewAlerts == {a \in alerts' : a.id \notin Ids(alerts)}

\* C29: a new store has no alerts, and a step that adds an alert is the
\* insert_alert of a run of the checks, made by the server for a skill of
\* the batch it has inserted in full, after the run has met the spike
\* condition: it adds one alert, of that skill, not acknowledged, a critical
\* failure_spike after check_failure_spike and a warning latency_spike after
\* check_latency_spike.  No other step adds an alert.
C29_AlertsByDetector ==
    /\ alerts = {}
    /\ [][NewAlerts # {} =>
            /\ pc["srv"] \in {"alert_f", "alert_l"}
            /\ pc'["srv"] # pc["srv"]
            /\ loc["srv"].msg # NoMsg
            /\ loc["srv"].sid \in BatchSkills
            /\ loc["srv"].sent = Len(loc["srv"].rows)
            /\ \A i \in 1..Len(loc["srv"].rows) : loc["srv"].rows[i].id \in Ids(events)
            /\ Cardinality(NewAlerts) = 1
            /\ \A a \in NewAlerts :
                /\ a.skill_id = loc["srv"].sid
                /\ a.acknowledged = FALSE
                /\ <<a.alert_type, a.severity>> =
                        IF pc["srv"] = "alert_f"
                            THEN <<"failure_spike", "critical">>
                            ELSE <<"latency_spike", "warning">>
      ]_vars

\* The server has processed a batch of skill B alone, whose event is stored,
\* and is now in the checks of a batch of skill A alone: the run has stored
\* a failure_spike of skill A, and there is no alert of skill B.
C29_Witness ==
    /\ \E e \in events : e.skill_id = "B" /\ e.id >= FirstUuid
    /\ pc["srv"] = "ls" /\ loc["srv"].sid = "A" /\ BatchSkills = {"A"}
    /\ Len(loc["srv"].out) = 1
    /\ \E a \in alerts : a.skill_id = "A" /\ a.alert_type = "failure_spike"
    /\ \A a \in alerts : a.skill_id # "B"

-----------------------------------------------------------------------------
(* The callers of the skills: SpecCaller *)

\* A SkillEventRow with its fields caller_agent and caller_tool
CallerRow(id, skill, ts, agent, tool) ==
    [id |-> id, skill_id |-> skill, timestamp |-> ts, user_id |-> "u1",
     success |-> TRUE, duration_ms |-> None,
     caller_agent |-> agent, caller_tool |-> tool]

\* One row of SELECT caller_agent, caller_tool, skill_id, COUNT(*) as cnt
\* ... GROUP BY caller_agent, caller_tool, skill_id (NULLs are one group)
CallerGroup(sel, agent, tool, sid) ==
    [caller_agent |-> agent, caller_tool |-> tool, skill_id |-> sid,
     call_count |-> Cardinality({e \in sel : /\ e.caller_agent = agent
                                             /\ e.caller_tool = tool
                                             /\ e.skill_id = sid})]

\* The closure of query_map: CallerDependency { caller_agent: row.get(0)?,
\* caller_tool: row.get(1)?, .. }.  Both fields are String: row.get of a
\* NULL is an error.
CallerDependency(g) ==
    IF g.caller_agent = None \/ g.caller_tool = None THEN None
    ELSE Some([caller_agent |-> The(g.caller_agent),
               caller_tool |-> The(g.caller_tool),
               skill_id |-> g.skill_id,
               call_count |-> g.call_count])

\* AnalyticsStore::get_caller_analysis: the results the call can have.
\* result.push(row?) returns the error of the first row that has one.
get_caller_analysis(ev, clock, days) ==
    LET since == clock - days * DAY
        sel == {e \in Since(ev, since) : e.caller_agent # None}
        groups == {CallerGroup(sel, e.caller_agent, e.caller_tool, e.skill_id) :
                        e \in sel}
    IN  IF \E g \in groups : CallerDependency(g) = None
            THEN {[ok |-> FALSE, rows |-> <<>>]}
            ELSE {[ok |-> TRUE,
                   rows |-> [i \in DOMAIN p |-> The(CallerDependency(p[i]))]] :
                        p \in OrderByCntDesc(groups)}

GetCallerAnalysis(days) ==
    /\ LockFree
    /\ \E r \in get_caller_analysis(events, now, days) :
            obs' = Observed("get_caller_analysis", days, 0, r)
    /\ UNCHANGED <<db, stats, now, events, alerts, lock, txBase, nextUuid, pc, loc, resp>>

\* Rows of a store the analysis is run on, all of them before the clock:
\* calls of the agents bot and cli with the tool run, a call of bot that
\* names no tool, calls without a caller, and calls days ago
CallerRows ==
    {CallerRow(1, "A", T0 - 60, Some("bot"), Some("run")),
     CallerRow(2, "A", T0 - 120, Some("bot"), Some("run")),
     CallerRow(3, "A", T0 - 60, Some("bot"), None),
     CallerRow(4, "B", T0 - 60, Some("bot"), Some("run")),
     CallerRow(5, "B", T0 - 2 * DAY, Some("cli"), Some("run")),
     CallerRow(6, "A", T0 - 60, None, None),
     CallerRow(7, "B", T0 - 60, None, Some("run")),
     CallerRow(8, "A", T0 - 8 * DAY, Some("bot"), Some("run"))}

InitCaller ==
    /\ now = T0
    /\ events \in SUBSET CallerRows
    /\ alerts = {}
    /\ stats = {}
    /\ db = Opened
    /\ lock = "none"
    /\ txBase = {}
    /\ nextUuid = FirstUuid
    /\ pc = [t \in Threads |-> "idle"]
    /\ loc = [t \in Threads |-> NoLoc]
    /\ resp = [t \in Threads |-> NoResp]
    /\ obs = NoObs

NextCaller == \E d \in DaysArgs : GetCallerAnalysis(d)

SpecCaller == InitCaller /\ [][NextCaller]_vars

\* The in-window events that carry a caller_agent
WithCaller(days) == {e \in Trailing(days) : e.caller_agent # None}

\* The distinct (caller_agent, caller_tool, skill_id) among them
Combinations(days) ==
    {<<e.caller_agent, e.caller_tool, e.skill_id>> : e \in WithCaller(days)}

\* C30: get_caller_analysis(days) succeeds; its entries are distinct, one
\* for each (caller_agent, caller_tool, skill_id) among the in-window events
\* that carry a caller_agent, those without a caller tool included, with the
\* size of the group as call_count; no call_count is above an earlier one;
\* and the call_counts add up to the number of those events.
C30_CallerAnalysis ==
    [][\A d \in DaysArgs : GetCallerAnalysis(d) =>
        LET res == obs'.res.rows
            entries == {res[i] : i \in 1..Len(res)}
        IN  /\ obs'.res.ok
            /\ Len(res) = Cardinality(Combinations(d))
            /\ Cardinality(entries) = Len(res)
            /\ \A c \in Combinations(d) :
                \E i \in 1..Len(res) :
                    /\ res[i].caller_agent = The(c[1])
                    /\ c[2] # None => res[i].caller_tool = The(c[2])
                    /\ res[i].skill_id = c[3]
                    /\ res[i].call_count =
                            Cardinality({e \in WithCaller(d) :
                                /\ e.caller_agent = c[1]
                                /\ e.caller_tool = c[2]
                                /\ e.skill_id = c[3]})
            /\ \A i, j \in 1..Len(res) :
                    i < j => res[i].call_count >= res[j].call_count
            /\ SumColumn(entries, "call_count") = Cardinality(WithCaller(d))
      ]_vars

====
